---- MODULE Spec2Model ----
(***************************************************************************)
(* Finance tracker: the ledger (accounts, transactions), the recurring     *)
(* rules and the materialization engine of routers/recurring_transactions. *)
(* Every HTTP handler is one action; the tables it writes are the state.   *)
(*                                                                         *)
(* Dates are written as the integer yyyymmdd (2024-01-15 is 20240115), so  *)
(* that Python's date comparison is integer comparison.  Money is counted  *)
(* in whole units (Decimal arithmetic is exact).  NULL is 0: no id and no  *)
(* date is 0, and Python's truth test "if rt.account_from_id" is "# NULL". *)
(***************************************************************************)
EXTENDS Integers, Sequences, FiniteSets, TLC

VARIABLES
    accounts,                 \* table accounts: id -> row
    transactions,             \* table transactions, in insertion order
    recurring_transactions,   \* table recurring_transactions: id -> row
    savings_goals,            \* table savings_goals: id -> row
    today,                    \* what date.today() returns
    response,                 \* what the last handler call returned to its caller
    episode,                  \* history: the run of successive process calls
    sessions,                 \* the process calls in flight, one per connection
    calc                      \* one application of the recurrence step

vars == <<accounts, transactions, recurring_transactions, savings_goals, today,
          response, episode, sessions, calc>>

NULL == 0

(***************************************************************************)
(* Bounds of the model.                                                    *)
(***************************************************************************)
\* the highest id a row inserted by create_transaction, adjust-balance or
\* deposit gets
MaxManual == 1
\* the last iteration of the process loop at which a statement may fail
MaxFaultAt == 1

\* the cap of the while loop of process_recurring_transaction
SafetyCap == 100

(***************************************************************************)
(* Calendar: datetime.date, timedelta and dateutil's relativedelta.        *)
(***************************************************************************)
Year(dt) == dt \div 10000
Month(dt) == (dt \div 100) % 100
Day(dt) == dt % 100
MkDate(y, m, d) == y * 10000 + m * 100 + d

IsLeap(y) == (y % 4 = 0 /\ y % 100 # 0) \/ y % 400 = 0

DaysInMonth(y, m) ==
    IF m = 2 THEN (IF IsLeap(y) THEN 29 ELSE 28)
    ELSE IF m \in {4, 6, 9, 11} THEN 30 ELSE 31

\* what datetime.date(y, m, d) accepts; anything else raises ValueError
IsValidDate(dt) ==
    /\ Month(dt) \in 1..12
    /\ Day(dt) >= 1
    /\ Day(dt) <= DaysInMonth(Year(dt), Month(dt))

NextDay(dt) ==
    IF Day(dt) < DaysInMonth(Year(dt), Month(dt)) THEN dt + 1
    ELSE IF Month(dt) < 12 THEN MkDate(Year(dt), Month(dt) + 1, 1)
    ELSE MkDate(Year(dt) + 1, 1, 1)

\* dt + timedelta(days=n)
RECURSIVE AddDays(_, _)
AddDays(dt, n) == IF n = 0 THEN dt ELSE AddDays(NextDay(dt), n - 1)

Min(a, b) == IF a <= b THEN a ELSE b

\* mutant: the day is kept as it is (date.replace(month=...))
AddRelativeDeltaUnclamped(dt, years, months) ==
    LET m0 == Month(dt) + months
        y == IF m0 > 12 THEN Year(dt) + years + 1 ELSE Year(dt) + years
        m == IF m0 > 12 THEN m0 - 12 ELSE m0
    IN  MkDate(y, m, Day(dt))

\* dt + relativedelta(years=years, months=months), 0 <= months <= 11:
\* the month and year are advanced, then the day is cut to the length
\* of the month reached
AddRelativeDelta(dt, years, months) ==
    LET m0 == Month(dt) + months
        y == IF m0 > 12 THEN Year(dt) + years + 1 ELSE Year(dt) + years
        m == IF m0 > 12 THEN m0 - 12 ELSE m0
    IN  MkDate(y, m, Min(DaysInMonth(y, m), Day(dt)))

ValueError == -1

\* the if/elif chain on rt.frequency of process_recurring_transaction
NextDate(frequency, next_date) ==
    CASE frequency = "daily" -> AddDays(next_date, 1)
      [] frequency = "weekly" -> AddDays(next_date, 7)
      [] frequency = "monthly" -> AddRelativeDelta(next_date, 0, 1)
      [] frequency = "quarterly" -> AddRelativeDelta(next_date, 0, 3)
      [] frequency = "yearly" -> AddRelativeDelta(next_date, 1, 0)
      [] OTHER -> ValueError

(***************************************************************************)
(* Inputs of the handlers.                                                 *)
(***************************************************************************)
AccountIds == {1, 2}
\* the ids the callers put in the path of a rule's endpoints; a rule is
\* stored under id 1, so 2 is an id no rule has
RuleIds == {1, 2}
Amounts == {5}
Frequencies == {"daily", "weekly", "monthly", "quarterly", "yearly"}

\* the dates the clock is observed at, in order
ClockDates == <<20240115, 20240415, 20240425, 20250301>>

\* RecurringTransactionCreate bodies
RuleInput(frequency, start_date, end_date, type, from, to) ==
    [frequency |-> frequency, start_date |-> start_date, end_date |-> end_date,
     type |-> type, amount |-> 5, account_from_id |-> from, account_to_id |-> to]

RuleInputs ==
    { RuleInput("daily", 20240115, 20240815, "expense", 1, NULL),
      RuleInput("weekly", 20240115, 20240301, "income", NULL, 2),
      RuleInput("monthly", 20240115, NULL, "transfer", 1, 2),
      RuleInput("monthly", 20240115, 20240301, "expense", 1, NULL),
      RuleInput("monthly", 20240131, NULL, "income", NULL, 2),
      RuleInput("quarterly", 20231130, NULL, "transfer", 2, 1),
      RuleInput("yearly", 20240229, NULL, "expense", 2, NULL) }

\* What a handler returns: the HTTP status, the "created" count of the body
\* (0 when the body has none), the error detail, and for process-all the
\* per-rule entries of "details".
Reply(op, id, status, created, detail) ==
    [op |-> op, id |-> id, status |-> status, created |-> created,
     detail |-> detail, results |-> <<>>]

NoResponse == Reply("none", NULL, 0, 0, "")

(***************************************************************************)
(* The store: a handler works on a copy of the tables (its database        *)
(* transaction); commit installs the copy, rollback drops it.              *)
(***************************************************************************)
Tables ==
    [accounts |-> accounts, transactions |-> transactions,
     recurring_transactions |-> recurring_transactions,
     savings_goals |-> savings_goals]

Install(db) ==
    /\ accounts' = db.accounts
    /\ transactions' = db.transactions
    /\ recurring_transactions' = db.recurring_transactions
    /\ savings_goals' = db.savings_goals

\* trans.commit(): what the handler wrote becomes the stored state
Commit(before, work) == work

\* mutant: the except branch leaves the statements already executed in place
RollbackKeepsWrites(before, work) == work

\* trans.rollback(): the stored state stays as it was at db.begin()
Rollback(before, work) == before

(***************************************************************************)
(* Balance effect of a transaction (the UPDATE accounts statements).       *)
(***************************************************************************)
\* UPDATE accounts SET current_balance = current_balance + delta WHERE id = :id
\* (no row, no effect)
AddToBalance(accts, id, delta) ==
    IF id \in DOMAIN accts
    THEN [accts EXCEPT ![id].current_balance = @ + delta]
    ELSE accts

\* mutant: the balances are updated for one transaction, however many the
\* call inserted
ApplyEffectOnce(accts, account_from_id, account_to_id, amount, n) ==
    IF n = 0 THEN accts
    ELSE LET a1 == IF account_from_id # NULL
                   THEN AddToBalance(accts, account_from_id, -amount)
                   ELSE accts
         IN  IF account_to_id # NULL
             THEN AddToBalance(a1, account_to_id, amount)
             ELSE a1

\* "if account_from_id: balance - amount; if account_to_id: balance + amount"
\* applied for n transactions of the same amount
ApplyEffect(accts, account_from_id, account_to_id, amount, n) ==
    LET a1 == IF account_from_id # NULL
              THEN AddToBalance(accts, account_from_id, -(amount * n))
              ELSE accts
    IN  IF account_to_id # NULL
        THEN AddToBalance(a1, account_to_id, amount * n)
        ELSE a1

\* mutant: only the source account gets its amount back
RevertEffectSourceOnly(accts, account_from_id, account_to_id, amount) ==
    IF account_from_id # NULL
    THEN AddToBalance(accts, account_from_id, amount)
    ELSE accts

\* the reverse, as update_transaction and delete_transaction apply it
RevertEffect(accts, account_from_id, account_to_id, amount) ==
    LET a1 == IF account_from_id # NULL
              THEN AddToBalance(accts, account_from_id, amount)
              ELSE accts
    IN  IF account_to_id # NULL
        THEN AddToBalance(a1, account_to_id, -amount)
        ELSE a1

\* the id the transactions table gives the next inserted row
NextTransactionId(txs) == IF Len(txs) = 0 THEN 1 ELSE txs[Len(txs)].id + 1

NextRowId(table) ==
    IF DOMAIN table = {} THEN 1
    ELSE 1 + CHOOSE i \in DOMAIN table : \A j \in DOMAIN table : j <= i

(***************************************************************************)
(* process_recurring_transaction                                           *)
(***************************************************************************)
NoFault == [stmt |-> "none", at |-> 0]

\* where a statement of the call may raise (a storage error): the INSERT or
\* the balance UPDATE of iteration `at`, or the final UPDATE of the rule
Faults ==
    {NoFault, [stmt |-> "checkpoint", at |-> 0]}
    \cup [stmt : {"insert", "balance"}, at : 1..MaxFaultAt]

\* The while loop's variables: inserted (the dates of the transactions
\* inserted so far), created_count, next_date, actual_last_date, running
\* (FALSE after a break) and raised (the exception that ended the loop).
LoopStart(last_date) ==
    [inserted |-> <<>>, created_count |-> 0, next_date |-> last_date,
     actual_last_date |-> last_date, running |-> TRUE, raised |-> "none"]

\* if next_date > current_date: break
PastCurrentDate(next_date, current_date) == next_date > current_date

\* mutant: the end date is not looked at
NeverPastEndDate(rt, next_date) == FALSE

\* if rt.end_date and next_date > rt.end_date: break
PastEndDate(rt, next_date) == rt.end_date # NULL /\ next_date > rt.end_date

\* one pass through the body of the while loop
LoopBody(rt, current_date, fault, w) ==
    LET next_date == NextDate(rt.frequency, w.next_date) IN
    IF next_date = ValueError
    THEN [w EXCEPT !.running = FALSE, !.raised = "ValueError"]
    ELSE IF PastCurrentDate(next_date, current_date)
    THEN [w EXCEPT !.running = FALSE, !.next_date = next_date]
    ELSE IF PastEndDate(rt, next_date)
    THEN [w EXCEPT !.running = FALSE, !.next_date = next_date]
    ELSE IF fault = [stmt |-> "insert", at |-> w.created_count + 1]
    THEN [w EXCEPT !.running = FALSE, !.next_date = next_date,
                   !.raised = "StorageError"]
    ELSE IF fault = [stmt |-> "balance", at |-> w.created_count + 1]
    THEN [w EXCEPT !.running = FALSE, !.next_date = next_date,
                   !.inserted = Append(@, next_date),
                   !.raised = "StorageError"]
    ELSE [w EXCEPT !.next_date = next_date,
                   !.inserted = Append(@, next_date),
                   !.created_count = @ + 1,
                   !.actual_last_date = next_date]

\* mutant: the loop is entered once more
LoopGuardOffByOne(w) == w.created_count <= SafetyCap

\* while created_count < 100: ...
LoopGuard(w) == w.created_count < SafetyCap

RECURSIVE ProcessLoop(_, _, _, _)
ProcessLoop(rt, current_date, fault, w) ==
    IF w.running /\ LoopGuard(w)
    THEN ProcessLoop(rt, current_date, fault, LoopBody(rt, current_date, fault, w))
    ELSE w

\* the row the loop inserts for next_date
RecurringRow(rt, rid, txid, next_date) ==
    [id |-> txid, date |-> next_date, type |-> rt.type, amount |-> rt.amount,
     account_from_id |-> rt.account_from_id, account_to_id |-> rt.account_to_id,
     recurring_id |-> rid]

\* the tables as the loop's statements left them in the open transaction
LoopWrites(db, rt, rid, w) ==
    LET base == NextTransactionId(db.transactions) - 1
        rows == [i \in 1..Len(w.inserted) |->
                    RecurringRow(rt, rid, base + i, w.inserted[i])]
    IN  [db EXCEPT
           !.transactions = @ \o rows,
           !.accounts = ApplyEffect(@, rt.account_from_id, rt.account_to_id,
                                    rt.amount, w.created_count)]

\* mutant: the checkpoint is not written
SetCheckpointLost(db, rid, date) == db

\* mutant: the rule is switched off with the write of its checkpoint
SetCheckpointFinishing(db, rid, date) ==
    [db EXCEPT !.recurring_transactions[rid].last_created_date = date,
               !.recurring_transactions[rid].is_active = FALSE]

\* UPDATE recurring_transactions SET last_created_date = :date WHERE id = :id
SetCheckpoint(db, rid, date) ==
    [db EXCEPT !.recurring_transactions[rid].last_created_date = date]

\* The end of the call, after the loop left w: the except branch, or the
\* UPDATE of last_created_date and trans.commit().
ProcessEnd(db, id, rt, fault, w) ==
    IF w.raised # "none"
    THEN [db |-> Rollback(db, LoopWrites(db, rt, id, w)),
          reply |-> Reply("process", id, 500, 0, w.raised)]
    ELSE IF w.created_count > 0 /\ fault.stmt = "checkpoint"
    THEN [db |-> Rollback(db, LoopWrites(db, rt, id, w)),
          reply |-> Reply("process", id, 500, 0, "StorageError")]
    ELSE IF w.created_count > 0
    THEN [db |-> Commit(db, SetCheckpoint(LoopWrites(db, rt, id, w), id,
                                          w.actual_last_date)),
          reply |-> Reply("process", id, 200, w.created_count, "")]
    ELSE [db |-> Commit(db, LoopWrites(db, rt, id, w)),
          reply |-> Reply("process", id, 200, 0, "")]

\* mutant: the checkpoint is not read
LastDateFromStart(rt) == rt.start_date

\* mutant: a null checkpoint is read as the day before start_date
LastDateBeforeStart(rt) ==
    IF rt.last_created_date # NULL THEN rt.last_created_date ELSE rt.start_date - 1

\* last_date = rt.last_created_date or rt.start_date
LastDate(rt) ==
    IF rt.last_created_date # NULL THEN rt.last_created_date ELSE rt.start_date

\* The call from "if last_date >= current_date" on, for the row rt.
ProcessRule(db, id, rt, current_date, fault) ==
    IF LastDate(rt) >= current_date
    THEN [db |-> Rollback(db, db),
          reply |-> Reply("process", id, 200, 0, "nothing due")]
    ELSE ProcessEnd(db, id, rt, fault,
                    ProcessLoop(rt, current_date, fault, LoopStart(LastDate(rt))))

\* mutant: the SELECT leaves out "AND is_active = true"
RuleSelectedWhateverActive(db, id) == id \in DOMAIN db.recurring_transactions

\* SELECT * FROM recurring_transactions WHERE id = :id AND is_active = true
\* returns a row
RuleSelected(db, id) ==
    /\ id \in DOMAIN db.recurring_transactions
    /\ db.recurring_transactions[id].is_active

\* One call on the tables db: the tables it leaves and what it returns.
ProcessCall(db, id, current_date, fault) ==
    IF ~RuleSelected(db, id)
    THEN \* HTTPException(404) raised inside the try: caught, re-raised as 500
         [db |-> Rollback(db, db),
          reply |-> Reply("process", id, 500, 0, "404")]
    ELSE ProcessRule(db, id, db.recurring_transactions[id], current_date, fault)

(***************************************************************************)
(* History: the run of successive successful process calls on one rule    *)
(* with nothing else in between (no other call, no change of date).  It    *)
(* records the state before the first call of the run and what each call  *)
(* reported as created; it is not extended after a call reported 0.  It    *)
(* also records the connections whose call was at the SELECT ... FOR       *)
(* UPDATE of the rule when the first call of the run ended.                *)
(***************************************************************************)
NoEpisode ==
    [id |-> NULL, last_date |-> NULL, base |-> 0, accounts |-> <<>>, counts |-> <<>>,
     waiting |-> {}]

EpisodeAfter(reply) ==
    IF reply.op = "process" /\ reply.status = 200
    THEN IF episode.id = reply.id
         THEN IF episode.counts[Len(episode.counts)] = 0
              THEN episode
              ELSE [episode EXCEPT !.counts = Append(@, reply.created)]
         ELSE [id |-> reply.id,
               last_date |-> LastDate(recurring_transactions[reply.id]),
               base |-> Len(transactions),
               accounts |-> accounts,
               counts |-> <<reply.created>>,
               waiting |-> {c \in DOMAIN sessions :
                               /\ sessions[c].pc = "waiting"
                               /\ sessions[c].queue[1] = reply.id}]
    ELSE NoEpisode

ProcessDone(r) ==
    /\ Install(r.db)
    /\ response' = r.reply
    /\ episode' = EpisodeAfter(r.reply)

Process(id) ==
    \E fault \in Faults :
        /\ ProcessDone(ProcessCall(Tables, id, today, fault))
        /\ UNCHANGED today

(***************************************************************************)
(* process_all_recurring_transactions                                      *)
(***************************************************************************)
ActiveIds(db) ==
    {id \in DOMAIN db.recurring_transactions : db.recurring_transactions[id].is_active}

\* the orders in which SELECT id ... WHERE is_active = true may return ids
Orders(ids) ==
    {o \in [1..Cardinality(ids) -> ids] :
        \A i, j \in 1..Cardinality(ids) : i # j => o[i] # o[j]}

\* The body of the for loop after the call returned or raised r; acc holds
\* the tables, total_created and results.
AfterCall(acc, id, r) ==
    IF r.reply.status # 200
    THEN \* except Exception as e: results.append("ID ..: Ошибка")
         [acc EXCEPT !.db = r.db,
                     !.results = Append(@, [id |-> id, created |-> 0,
                                            error |-> r.reply.detail])]
    ELSE IF r.reply.created > 0
    THEN [acc EXCEPT !.db = r.db,
                     !.total_created = @ + r.reply.created,
                     !.results = Append(@, [id |-> id,
                                            created |-> r.reply.created,
                                            error |-> ""])]
    ELSE [acc EXCEPT !.db = r.db]

\* mutant: the for loop ends at the first rule whose call raised
RECURSIVE ProcessAllLoopStopping(_, _, _, _, _)
ProcessAllLoopStopping(order, faults, current_date, i, acc) ==
    IF i > Len(order) \/ (\E k \in 1..Len(acc.results) : acc.results[k].error # "")
    THEN acc
    ELSE ProcessAllLoopStopping(order, faults, current_date, i + 1,
             AfterCall(acc, order[i],
                       ProcessCall(acc.db, order[i], current_date, faults[order[i]])))

\* The for loop over active_recurring from position i on.
RECURSIVE ProcessAllLoop(_, _, _, _, _)
ProcessAllLoop(order, faults, current_date, i, acc) ==
    IF i > Len(order) THEN acc
    ELSE ProcessAllLoop(order, faults, current_date, i + 1,
             AfterCall(acc, order[i],
                       ProcessCall(acc.db, order[i], current_date, faults[order[i]])))

\* return {"total_created": ..., "details": results}
ProcessAllDone(acc) ==
    /\ Install(acc.db)
    /\ response' = [Reply("process_all", NULL, 200, acc.total_created, "")
                      EXCEPT !.results = acc.results]
    /\ episode' = NoEpisode

ProcessAll ==
    \E order \in Orders(ActiveIds(Tables)) :
    \E faults \in [ActiveIds(Tables) -> Faults] :
        /\ ProcessAllDone(ProcessAllLoop(order, faults, today, 1,
                 [db |-> Tables, total_created |-> 0, results |-> <<>>]))
        /\ UNCHANGED today

(***************************************************************************)
(* toggle_recurring_transaction, update_recurring_transaction              *)
(***************************************************************************)
Toggle(id) ==
    /\ \E active \in BOOLEAN :
         IF id \in DOMAIN recurring_transactions
         THEN /\ recurring_transactions' =
                    [recurring_transactions EXCEPT ![id].is_active = active]
              /\ response' = Reply("toggle", id, 200, 0, "")
         ELSE /\ UNCHANGED recurring_transactions
              /\ response' = Reply("toggle", id, 404, 0, "")
    /\ episode' = NoEpisode
    /\ UNCHANGED <<accounts, transactions, savings_goals, today>>

\* RecurringTransactionUpdate bodies (the fields that are set)
UpdateBodies ==
    { [end_date |-> 20240301], [frequency |-> "weekly"], [is_active |-> FALSE] }

\* mutant: the update clears the checkpoint
ApplyUpdateResetting(row, body) ==
    [f \in DOMAIN row |->
        IF f = "last_created_date" THEN NULL
        ELSE IF f \in DOMAIN body THEN body[f] ELSE row[f]]

\* UPDATE recurring_transactions SET field = :field, ... WHERE id = :id
ApplyUpdate(row, body) ==
    [f \in DOMAIN row |-> IF f \in DOMAIN body THEN body[f] ELSE row[f]]

UpdateRecurring(id) ==
    /\ \E body \in UpdateBodies :
         IF id \in DOMAIN recurring_transactions
         THEN /\ recurring_transactions' =
                    [recurring_transactions EXCEPT ![id] = ApplyUpdate(@, body)]
              /\ response' = Reply("update_recurring", id, 200, 0, "")
         ELSE /\ UNCHANGED recurring_transactions
              /\ response' = Reply("update_recurring", id, 404, 0, "")
    /\ episode' = NoEpisode
    /\ UNCHANGED <<accounts, transactions, savings_goals, today>>

(***************************************************************************)
(* routers/transactions.py                                                 *)
(***************************************************************************)
\* TransactionCreate bodies: an expense, an income, a transfer, an expense
\* that names no account (account_from_id and account_to_id are Optional,
\* whatever the type) and a transfer from an account to itself
TransactionInputs ==
    { [type |-> "expense", account_from_id |-> 1, account_to_id |-> NULL],
      [type |-> "income", account_from_id |-> NULL, account_to_id |-> 2],
      [type |-> "transfer", account_from_id |-> 1, account_to_id |-> 2],
      [type |-> "expense", account_from_id |-> NULL, account_to_id |-> NULL],
      [type |-> "transfer", account_from_id |-> 1, account_to_id |-> 1] }

\* the ids the callers put in the path of a transaction's endpoints
TransactionIds == 1..MaxManual

\* a row of the transactions table that no rule generated
ManualRow(txid, dt, type, amount, from, to) ==
    [id |-> txid, date |-> dt, type |-> type, amount |-> amount,
     account_from_id |-> from, account_to_id |-> to, recurring_id |-> NULL]

\* SELECT * FROM transactions WHERE id = :id
HasTransaction(txs, id) == \E i \in 1..Len(txs) : txs[i].id = id
TransactionAt(txs, id) == txs[CHOOSE i \in 1..Len(txs) : txs[i].id = id]

\* DELETE FROM transactions WHERE id = :id
WithoutTransaction(txs, id) == SelectSeq(txs, LAMBDA row : row.id # id)

\* the sequence gives ids up to MaxManual to the rows inserted by hand
CanInsert == NextTransactionId(transactions) <= MaxManual

NotProcess == episode' = NoEpisode /\ UNCHANGED today

\* create_transaction
CreateTransaction ==
    /\ CanInsert
    /\ \E in \in TransactionInputs, amount \in Amounts :
         /\ transactions' =
                Append(transactions,
                       ManualRow(NextTransactionId(transactions), today, in.type,
                                 amount, in.account_from_id, in.account_to_id))
         /\ accounts' = ApplyEffect(accounts, in.account_from_id, in.account_to_id,
                                    amount, 1)
         /\ response' = Reply("create_transaction",
                              NextTransactionId(transactions), 200, 1, "")
    /\ NotProcess
    /\ UNCHANGED <<recurring_transactions, savings_goals>>

\* TransactionUpdate bodies: a new description, or nothing at all
TransactionUpdates == {"description", "empty"}

\* update_transaction: the old effect is reverted, the row updated and
\* read again, and the effect of what was read applied
UpdateTransaction(id) ==
    /\ \E body \in TransactionUpdates :
         IF ~HasTransaction(transactions, id)
         THEN /\ UNCHANGED accounts
              /\ response' = Reply("update_transaction", id, 500, 0, "404")
         ELSE IF body = "empty"
         THEN \* raised after the revert: the except branch rolls it back
              /\ accounts' =
                    Rollback(accounts,
                             RevertEffect(accounts,
                                          TransactionAt(transactions, id).account_from_id,
                                          TransactionAt(transactions, id).account_to_id,
                                          TransactionAt(transactions, id).amount))
              /\ response' = Reply("update_transaction", id, 500, 0, "400")
         ELSE /\ accounts' =
                    ApplyEffect(
                        RevertEffect(accounts,
                                     TransactionAt(transactions, id).account_from_id,
                                     TransactionAt(transactions, id).account_to_id,
                                     TransactionAt(transactions, id).amount),
                        TransactionAt(transactions, id).account_from_id,
                        TransactionAt(transactions, id).account_to_id,
                        TransactionAt(transactions, id).amount, 1)
              /\ response' = Reply("update_transaction", id, 200, 0, "")
    /\ NotProcess
    /\ UNCHANGED <<transactions, recurring_transactions, savings_goals>>

\* delete_transaction
DeleteTransaction(id) ==
    /\ IF ~HasTransaction(transactions, id)
       THEN /\ UNCHANGED <<accounts, transactions>>
            /\ response' = Reply("delete_transaction", id, 500, 0, "404")
       ELSE /\ accounts' =
                  RevertEffect(accounts,
                               TransactionAt(transactions, id).account_from_id,
                               TransactionAt(transactions, id).account_to_id,
                               TransactionAt(transactions, id).amount)
            /\ transactions' = WithoutTransaction(transactions, id)
            /\ response' = Reply("delete_transaction", id, 200, 0, "")
    /\ NotProcess
    /\ UNCHANGED <<recurring_transactions, savings_goals>>

(***************************************************************************)
(* routers/accounts.py: adjust_account_balance                             *)
(***************************************************************************)
\* the new_balance values the callers send
NewBalances == {50, 100}

\* mutant: the sign of the difference is kept
Signed(x) == x

Abs(x) == IF x < 0 THEN -x ELSE x

AdjustBalance(account_id) ==
    /\ \E new_balance \in NewBalances :
         IF account_id \notin DOMAIN accounts
         THEN /\ UNCHANGED <<accounts, transactions>>
              /\ response' = Reply("adjust_balance", account_id, 404, 0, "")
         ELSE IF new_balance - accounts[account_id].current_balance = 0
         THEN /\ UNCHANGED <<accounts, transactions>>
              /\ response' = Reply("adjust_balance", account_id, 200, 0, "unchanged")
         ELSE /\ CanInsert
              /\ transactions' =
                    Append(transactions,
                           ManualRow(NextTransactionId(transactions), today,
                                     "correction",
                                     Abs(new_balance - accounts[account_id].current_balance),
                                     IF new_balance < accounts[account_id].current_balance
                                     THEN account_id ELSE NULL,
                                     IF new_balance > accounts[account_id].current_balance
                                     THEN account_id ELSE NULL))
              /\ accounts' = [accounts EXCEPT ![account_id].current_balance = new_balance]
              /\ response' = Reply("adjust_balance", account_id, 200, 1, "")
    /\ NotProcess
    /\ UNCHANGED <<recurring_transactions, savings_goals>>

(***************************************************************************)
(* routers/savings_goals.py                                                *)
(***************************************************************************)
\* SavingsGoalCreate bodies: a goal tied to account 1, and one tied to none
GoalInputs ==
    { [target_amount |-> 10, account_id |-> 1],
      [target_amount |-> 10, account_id |-> NULL] }

GoalIds == {1}

\* create_savings_goal
CreateSavingsGoal ==
    /\ DOMAIN savings_goals = {}
    /\ \E in \in GoalInputs :
         /\ savings_goals' = savings_goals @@
                (NextRowId(savings_goals) :>
                    [target_amount |-> in.target_amount, current_amount |-> 0,
                     account_id |-> in.account_id, is_achieved |-> FALSE])
         /\ response' = Reply("create_savings_goal", NextRowId(savings_goals),
                              200, 0, "")
    /\ NotProcess
    /\ UNCHANGED <<accounts, transactions, recurring_transactions>>

\* UPDATE savings_goals SET current_amount = ..., is_achieved = ...
GoalAfterDeposit(goal, amount) ==
    [goal EXCEPT !.current_amount = @ + amount,
                 !.is_achieved = (goal.current_amount + amount >= goal.target_amount)]

\* deposit_to_savings_goal; transaction_id is the optional link to a
\* transaction the caller has made
DepositToSavingsGoal(goal_id) ==
    /\ \E amount \in Amounts, transaction_id \in {NULL, 1} :
         IF goal_id \notin DOMAIN savings_goals
         THEN /\ UNCHANGED <<savings_goals, transactions>>
              /\ response' = Reply("deposit", goal_id, 500, 0, "404")
         ELSE IF savings_goals[goal_id].is_achieved
         THEN /\ UNCHANGED <<savings_goals, transactions>>
              /\ response' = Reply("deposit", goal_id, 500, 0, "400")
         ELSE IF transaction_id = NULL /\ savings_goals[goal_id].account_id # NULL
         THEN \* the expense row is inserted; no UPDATE accounts follows
              /\ CanInsert
              /\ savings_goals' =
                    [savings_goals EXCEPT ![goal_id] = GoalAfterDeposit(@, amount)]
              /\ transactions' =
                    Append(transactions,
                           ManualRow(NextTransactionId(transactions), today, "expense",
                                     amount, savings_goals[goal_id].account_id, NULL))
              /\ response' = Reply("deposit", goal_id, 200, 1, "")
         ELSE /\ savings_goals' =
                    [savings_goals EXCEPT ![goal_id] = GoalAfterDeposit(@, amount)]
              /\ UNCHANGED transactions
              /\ response' = Reply("deposit", goal_id, 200, 0, "")
    /\ NotProcess
    /\ UNCHANGED <<accounts, recurring_transactions>>

(***************************************************************************)
(* The other handlers                                                      *)
(***************************************************************************)
\* the row INSERT INTO recurring_transactions stores for the body `in`
RuleRow(in) ==
    [type |-> in.type, amount |-> in.amount,
     account_from_id |-> in.account_from_id,
     account_to_id |-> in.account_to_id,
     frequency |-> in.frequency,
     start_date |-> in.start_date,
     end_date |-> in.end_date,
     is_active |-> TRUE,
     last_created_date |-> NULL]

\* create_recurring_transaction
CreateRecurring ==
    /\ DOMAIN recurring_transactions = {}
    /\ \E in \in RuleInputs :
         LET id == NextRowId(recurring_transactions) IN
         /\ recurring_transactions' = recurring_transactions @@ (id :> RuleRow(in))
         /\ response' = Reply("create_recurring", id, 200, 0, "")
    /\ episode' = NoEpisode
    /\ UNCHANGED <<accounts, transactions, savings_goals, today>>

\* the calendar day changes
Tick ==
    /\ \E i \in 1..Len(ClockDates) :
         /\ ClockDates[i] > today
         /\ today' = ClockDates[i]
    /\ response' = NoResponse
    /\ episode' = NoEpisode
    /\ UNCHANGED <<accounts, transactions, recurring_transactions, savings_goals>>

\* the accounts table after create_account(initial_balance=100) and
\* create_account(initial_balance=0)
TwoAccounts ==
    (1 :> [initial_balance |-> 100, current_balance |-> 100, is_active |-> TRUE])
    @@ (2 :> [initial_balance |-> 0, current_balance |-> 0, is_active |-> TRUE])

\* no call in flight, nothing computed
NoSessions == <<>>
NoCalc == [date |-> NULL, frequency |-> "", out |-> NULL]

\* the handlers below run one at a time, from begin to commit
Serial == UNCHANGED <<sessions, calc>>

(***************************************************************************)
(* Spec: the engine on one rule, its calls one after another.              *)
(***************************************************************************)
Init ==
    /\ accounts = TwoAccounts
    /\ transactions = <<>>
    /\ recurring_transactions = <<>>
    /\ savings_goals = <<>>
    /\ today = ClockDates[1]
    /\ response = NoResponse
    /\ episode = NoEpisode
    /\ sessions = NoSessions
    /\ calc = NoCalc

Next ==
    \/ CreateRecurring /\ Serial
    \/ \E id \in RuleIds : Process(id) /\ Serial
    \/ ProcessAll /\ Serial
    \/ \E id \in RuleIds : Toggle(id) /\ Serial
    \/ \E id \in RuleIds : UpdateRecurring(id) /\ Serial
    \/ Tick /\ Serial

Spec == Init /\ [][Next]_vars

(***************************************************************************)
(* SpecLedger: the handlers that write transactions and balances, on two   *)
(* accounts and one monthly transfer rule, from 2024-04-25 on.             *)
(***************************************************************************)
LedgerRule == RuleRow(RuleInput("monthly", 20240115, NULL, "transfer", 1, 2))

InitLedger ==
    /\ accounts = TwoAccounts
    /\ transactions = <<>>
    /\ recurring_transactions = (1 :> LedgerRule)
    /\ savings_goals = <<>>
    /\ today = ClockDates[3]
    /\ response = NoResponse
    /\ episode = NoEpisode
    /\ sessions = NoSessions
    /\ calc = NoCalc

NextLedger ==
    \/ CreateTransaction /\ Serial
    \/ \E id \in TransactionIds : UpdateTransaction(id) /\ Serial
    \/ \E id \in TransactionIds : DeleteTransaction(id) /\ Serial
    \/ \E id \in AccountIds : AdjustBalance(id) /\ Serial
    \/ CreateSavingsGoal /\ Serial
    \/ \E id \in GoalIds : DepositToSavingsGoal(id) /\ Serial
    \/ \E id \in RuleIds : Process(id) /\ Serial
    \/ ProcessAll /\ Serial
    \/ Tick /\ Serial

SpecLedger == InitLedger /\ [][NextLedger]_vars

(***************************************************************************)
(* SpecConc: process and process-all calls of two connections on one rule, *)
(* overlapping.                                                            *)
(* A call is three steps: the request arrives; SELECT ... FOR UPDATE       *)
(* returns the rule's row once no other transaction holds its lock; the    *)
(* loop's statements and the commit (or the rollback) follow.  The row     *)
(* lock is held from the second step to the end of the third.              *)
(***************************************************************************)
Connections == {1, 2}

\* holds and own are the account rows the call's transaction has locked
\* and the current_balance it has written in each (SpecLocks)
IdleSession ==
    [pc |-> "idle", op |-> "", queue |-> <<>>, rt |-> NULL, current_date |-> NULL,
     total_created |-> 0, results |-> <<>>, holds |-> {}, own |-> <<>>]

\* the rule whose row lock the session holds, or NULL
LockedBy(session) == IF session.pc = "working" THEN session.queue[1] ELSE NULL

\* mutant: the row is read without FOR UPDATE
NeverLocked(id, c) == TRUE

\* FOR UPDATE returns when no other transaction holds the lock of row id
RuleLockFree(id, c) ==
    \A other \in Connections \ {c} : LockedBy(sessions[other]) # id

\* POST /{id}/process arrives on connection c
CallProcess(c, id) ==
    /\ sessions[c].pc = "idle"
    /\ sessions' = [sessions EXCEPT ![c] =
            [IdleSession EXCEPT !.pc = "waiting", !.op = "process", !.queue = <<id>>]]
    /\ UNCHANGED <<accounts, transactions, recurring_transactions, savings_goals,
                   today, response, episode, calc>>

\* POST /process-all arrives on connection c: the ids of the active rules
\* are read, with no lock
CallProcessAll(c) ==
    /\ sessions[c].pc = "idle"
    /\ ActiveIds(Tables) # {}
    /\ \E order \in Orders(ActiveIds(Tables)) :
         sessions' = [sessions EXCEPT ![c] =
            [IdleSession EXCEPT !.pc = "waiting", !.op = "process_all",
                                !.queue = order]]
    /\ UNCHANGED <<accounts, transactions, recurring_transactions, savings_goals,
                   today, response, episode, calc>>

\* The session after its call on the head of its queue ended with r: a
\* single call returns; process-all goes through the body of its for loop
\* and returns after the last id.
SessionAfter(session, r) ==
    IF session.op = "process" THEN IdleSession
    ELSE IF Len(session.queue) = 1 THEN IdleSession
    ELSE [session EXCEPT
            !.pc = "waiting", !.queue = Tail(@), !.rt = NULL, !.current_date = NULL,
            !.total_created =
                AfterCall([db |-> r.db, total_created |-> session.total_created,
                           results |-> session.results],
                          session.queue[1], r).total_created,
            !.results =
                AfterCall([db |-> r.db, total_created |-> session.total_created,
                           results |-> session.results],
                          session.queue[1], r).results]

\* what the caller of the session gets when it returns
SessionReply(session, r) ==
    IF session.op = "process" THEN r.reply
    ELSE IF Len(session.queue) = 1
    THEN [Reply("process_all", NULL, 200,
                AfterCall([db |-> r.db, total_created |-> session.total_created,
                           results |-> session.results],
                          session.queue[1], r).total_created, "")
            EXCEPT !.results =
                AfterCall([db |-> r.db, total_created |-> session.total_created,
                           results |-> session.results],
                          session.queue[1], r).results]
    ELSE response

CallEnded(c, r) ==
    /\ Install(r.db)
    /\ response' = SessionReply(sessions[c], r)
    /\ sessions' = [sessions EXCEPT ![c] = SessionAfter(sessions[c], r)]
    \* a call that read an earlier date than the current one is in no run
    /\ episode' = IF sessions[c].current_date \in {NULL, today}
                  THEN EpisodeAfter(r.reply)
                  ELSE NoEpisode

\* SELECT ... WHERE id = :id AND is_active = true FOR UPDATE, up to
\* "if last_date >= current_date"
LockRule(c) ==
    /\ sessions[c].pc = "waiting"
    /\ RuleLockFree(sessions[c].queue[1], c)
    /\ IF ~RuleSelected(Tables, sessions[c].queue[1])
          \/ LastDate(recurring_transactions[sessions[c].queue[1]]) >= today
       THEN \* not found, or nothing due: rolled back, the call ends
            CallEnded(c, ProcessCall(Tables, sessions[c].queue[1], today, NoFault))
       ELSE /\ sessions' = [sessions EXCEPT ![c] =
                    [@ EXCEPT !.pc = "working",
                              !.rt = recurring_transactions[sessions[c].queue[1]],
                              !.current_date = today]]
            /\ UNCHANGED <<accounts, transactions, recurring_transactions,
                           savings_goals, response, episode>>
    /\ UNCHANGED <<today, calc>>

\* the loop on the row read under the lock, the UPDATE of the checkpoint
\* and the commit, or the rollback
FinishRule(c) ==
    /\ sessions[c].pc = "working"
    /\ \E fault \in Faults :
         CallEnded(c, ProcessEnd(Tables, sessions[c].queue[1], sessions[c].rt, fault,
                                 ProcessLoop(sessions[c].rt, sessions[c].current_date,
                                             fault,
                                             LoopStart(LastDate(sessions[c].rt)))))
    /\ UNCHANGED <<today, calc>>

\* the rule of SpecConc is one of these, stored under id 1
ConcRules ==
    { LedgerRule,
      RuleRow(RuleInput("monthly", 20240131, NULL, "income", NULL, 2)) }

InitConc ==
    /\ accounts = TwoAccounts
    /\ transactions = <<>>
    /\ recurring_transactions \in {(1 :> rule) : rule \in ConcRules}
    /\ savings_goals = <<>>
    /\ today = ClockDates[1]
    /\ response = NoResponse
    /\ episode = NoEpisode
    /\ sessions = [c \in Connections |-> IdleSession]
    /\ calc = NoCalc

NextConc ==
    \/ \E c \in Connections, id \in RuleIds : CallProcess(c, id)
    \/ \E c \in Connections : CallProcessAll(c)
    \/ \E c \in Connections : LockRule(c)
    \/ \E c \in Connections : FinishRule(c)
    \/ \E id \in RuleIds : Toggle(id) /\ UNCHANGED <<sessions, calc>>
    \/ Tick /\ UNCHANGED <<sessions, calc>>

SpecConc == InitConc /\ [][NextConc]_vars

(***************************************************************************)
(* SpecOverlap: process calls of two connections on one rule, overlapping, *)
(* the rule being one with a backlog below the cap or one with a backlog   *)
(* above it.                                                               *)
(***************************************************************************)
OverlapRules ==
    { LedgerRule,
      RuleRow(RuleInput("daily", 20240115, 20240815, "expense", 1, NULL)) }

InitOverlap ==
    /\ accounts = TwoAccounts
    /\ transactions = <<>>
    /\ recurring_transactions \in {(1 :> rule) : rule \in OverlapRules}
    /\ savings_goals = <<>>
    /\ today = ClockDates[1]
    /\ response = NoResponse
    /\ episode = NoEpisode
    /\ sessions = [c \in Connections |-> IdleSession]
    /\ calc = NoCalc

NextOverlap ==
    \/ \E c \in Connections, id \in RuleIds : CallProcess(c, id)
    \/ \E c \in Connections : LockRule(c)
    \/ \E c \in Connections : FinishRule(c)
    \/ Tick /\ UNCHANGED <<sessions, calc>>

SpecOverlap == InitOverlap /\ [][NextOverlap]_vars

(***************************************************************************)
(* SpecLocks: process, create_transaction and adjust_account_balance calls *)
(* of two connections on two rules that name the same two accounts, on one *)
(* date, statement by statement.  UPDATE accounts and SELECT ... FOR       *)
(* UPDATE take the lock of the account's row, which the transaction holds  *)
(* until it commits or rolls back; a statement on a row another            *)
(* transaction holds waits.  What a transaction wrote is seen by the       *)
(* others when it commits.                                                 *)
(***************************************************************************)
\* mutant: the balance is read and written back without the row's lock
AccountNeverLocked(a, c) == TRUE

\* no other transaction holds the lock of the row of account a
AccountLockFree(a, c) ==
    \A other \in Connections \ {c} : a \notin sessions[other].holds

\* created_count of the call of the session: the passes of the while loop
\* of a process call, one INSERT for create_transaction
Occurrences(session) ==
    IF session.op = "process"
    THEN ProcessLoop(session.rt, session.current_date, NoFault,
                     LoopStart(LastDate(session.rt))).created_count
    ELSE 1

\* the accounts the call's UPDATE statements write, in the order of the
\* statements: account_from_id, then account_to_id
Touches(session) ==
    IF session.op \notin {"process", "create"} \/ Occurrences(session) = 0
    THEN <<>>
    ELSE SelectSeq(<<session.rt.account_from_id, session.rt.account_to_id>>,
                   LAMBDA a : a \in DOMAIN accounts)

\* what the call's UPDATE statements add to current_balance of account a
Delta(session, a) ==
    (IF session.rt.account_to_id = a
     THEN session.rt.amount * Occurrences(session) ELSE 0)
    - (IF session.rt.account_from_id = a
       THEN session.rt.amount * Occurrences(session) ELSE 0)

\* the accounts of Touches the transaction has not written yet
Pending(session) ==
    SelectSeq(Touches(session), LAMBDA a : a \notin session.holds)

\* the manual rows stored and those the calls in progress are to insert
ManualRows ==
    Cardinality({i \in 1..Len(transactions) : transactions[i].recurring_id = NULL})
    + Cardinality({c \in Connections : sessions[c].op \in {"create", "adjust"}})

\* POST /transactions/ arrives on connection c: the INSERT is executed
CallCreate(c) ==
    /\ sessions[c].pc = "idle"
    /\ ManualRows < MaxManual
    /\ \E in \in TransactionInputs, amount \in Amounts :
         sessions' = [sessions EXCEPT ![c] =
            [IdleSession EXCEPT !.pc = "working", !.op = "create",
                                !.queue = <<NULL>>,
                                !.rt = ManualRow(NULL, today, in.type, amount,
                                                 in.account_from_id,
                                                 in.account_to_id),
                                !.current_date = today]]
    /\ UNCHANGED <<accounts, transactions, recurring_transactions, savings_goals,
                   today, response, episode, calc>>

\* POST /{account_id}/adjust-balance arrives on connection c
CallAdjust(c, account_id) ==
    /\ sessions[c].pc = "idle"
    /\ ManualRows < MaxManual
    /\ \E new_balance \in NewBalances :
         sessions' = [sessions EXCEPT ![c] =
            [IdleSession EXCEPT !.pc = "selecting", !.op = "adjust",
                                !.queue = <<NULL>>,
                                !.rt = [account_id |-> account_id,
                                        new_balance |-> new_balance],
                                !.current_date = today]]
    /\ UNCHANGED <<accounts, transactions, recurring_transactions, savings_goals,
                   today, response, episode, calc>>

\* the call of connection c returns reply, the tables being db
Returned(c, db, reply) ==
    /\ Install(db)
    /\ response' = reply
    /\ sessions' = [sessions EXCEPT ![c] = IdleSession]
    /\ episode' = NoEpisode
    /\ UNCHANGED <<today, calc>>

\* SELECT current_balance FROM accounts WHERE id = :id FOR UPDATE, up to
\* the INSERT of the correction
SelectAccount(c) ==
    /\ sessions[c].pc = "selecting"
    /\ IF sessions[c].rt.account_id \notin DOMAIN accounts
       THEN Returned(c, Rollback(Tables, Tables),
                     Reply("adjust_balance", sessions[c].rt.account_id, 404, 0, ""))
       ELSE /\ AccountLockFree(sessions[c].rt.account_id, c)
            /\ IF sessions[c].rt.new_balance
                    = accounts[sessions[c].rt.account_id].current_balance
               THEN Returned(c, Rollback(Tables, Tables),
                             Reply("adjust_balance", sessions[c].rt.account_id,
                                   200, 0, "unchanged"))
               ELSE /\ sessions' = [sessions EXCEPT ![c] =
                          [@ EXCEPT
                             !.pc = "working",
                             !.holds = {sessions[c].rt.account_id},
                             !.own = (sessions[c].rt.account_id
                                         :> sessions[c].rt.new_balance),
                             !.rt = ManualRow(NULL, today, "correction",
                                      Abs(sessions[c].rt.new_balance
                                          - accounts[sessions[c].rt.account_id]
                                                .current_balance),
                                      IF sessions[c].rt.new_balance
                                           < accounts[sessions[c].rt.account_id]
                                                 .current_balance
                                      THEN sessions[c].rt.account_id ELSE NULL,
                                      IF sessions[c].rt.new_balance
                                           > accounts[sessions[c].rt.account_id]
                                                 .current_balance
                                      THEN sessions[c].rt.account_id ELSE NULL)]]
                    /\ UNCHANGED <<accounts, transactions, recurring_transactions,
                                   savings_goals, today, response, episode, calc>>

\* UPDATE accounts SET current_balance = current_balance +/- :amount WHERE
\* id = :id, for the first account the transaction has not written yet
\* (the passes of the loop that follow write rows it holds already)
UpdateAccount(c) ==
    /\ sessions[c].pc = "working"
    /\ Pending(sessions[c]) # <<>>
    /\ AccountLockFree(Pending(sessions[c])[1], c)
    /\ sessions' = [sessions EXCEPT ![c] =
          [@ EXCEPT
             !.holds = @ \cup {Pending(sessions[c])[1]},
             !.own = (Pending(sessions[c])[1]
                        :> accounts[Pending(sessions[c])[1]].current_balance
                           + Delta(sessions[c], Pending(sessions[c])[1])) @@ @]]
    /\ UNCHANGED <<accounts, transactions, recurring_transactions, savings_goals,
                   today, response, episode, calc>>

\* the tables with the rows of accounts the transaction wrote
WithOwn(db, session) ==
    [db EXCEPT !.accounts =
        [a \in DOMAIN db.accounts |->
            IF a \in session.holds
            THEN [db.accounts[a] EXCEPT !.current_balance = session.own[a]]
            ELSE db.accounts[a]]]

\* the rows and the checkpoint a process call commits
ProcessWrites(db, session) ==
    LET w == ProcessLoop(session.rt, session.current_date, NoFault,
                         LoopStart(LastDate(session.rt)))
        rows == LoopWrites(db, session.rt, session.queue[1], w).transactions
    IN  IF w.created_count > 0
        THEN SetCheckpoint([db EXCEPT !.transactions = rows], session.queue[1],
                           w.actual_last_date)
        ELSE db

\* the row create_transaction or adjust_account_balance commits
ManualWrites(db, session) ==
    [db EXCEPT !.transactions =
        Append(@, [session.rt EXCEPT !.id = NextTransactionId(db.transactions)])]

\* trans.commit() of the call of connection c
CommitCall(c) ==
    /\ sessions[c].pc = "working"
    /\ Pending(sessions[c]) = <<>>
    /\ IF sessions[c].op = "process"
       THEN Returned(c, Commit(Tables, WithOwn(ProcessWrites(Tables, sessions[c]),
                                               sessions[c])),
                     Reply("process", sessions[c].queue[1], 200,
                           Occurrences(sessions[c]), ""))
       ELSE Returned(c, Commit(Tables, WithOwn(ManualWrites(Tables, sessions[c]),
                                               sessions[c])),
                     Reply(IF sessions[c].op = "create" THEN "create_transaction"
                           ELSE "adjust_balance",
                           NextTransactionId(transactions), 200, 1, ""))

\* a statement of the call raises (a storage error, or the database ends a
\* deadlock by failing the statement): trans.rollback(), HTTP 500
AbortCall(c) ==
    /\ sessions[c].pc = "working"
    /\ Returned(c, Rollback(Tables, WithOwn(Tables, sessions[c])),
                Reply(IF sessions[c].op = "process" THEN "process"
                      ELSE IF sessions[c].op = "create" THEN "create_transaction"
                      ELSE "adjust_balance",
                      sessions[c].queue[1], 500, 0, "StorageError"))

\* the rules of SpecLocks: a transfer from account 1 to account 2 and a
\* transfer from account 2 to account 1
LockRules ==
    (1 :> LedgerRule)
    @@ (2 :> RuleRow(RuleInput("quarterly", 20231130, NULL, "transfer", 2, 1)))

InitLocks ==
    /\ accounts = TwoAccounts
    /\ transactions = <<>>
    /\ recurring_transactions = LockRules
    /\ savings_goals = <<>>
    /\ today = ClockDates[2]
    /\ response = NoResponse
    /\ episode = NoEpisode
    /\ sessions = [c \in Connections |-> IdleSession]
    /\ calc = NoCalc

NextLocks ==
    \/ \E c \in Connections, id \in RuleIds : CallProcess(c, id)
    \/ \E c \in Connections : CallCreate(c)
    \/ \E c \in Connections, a \in AccountIds : CallAdjust(c, a)
    \/ \E c \in Connections : LockRule(c)
    \/ \E c \in Connections : SelectAccount(c)
    \/ \E c \in Connections : UpdateAccount(c)
    \/ \E c \in Connections : CommitCall(c)
    \/ \E c \in Connections : AbortCall(c)

SpecLocks == InitLocks /\ [][NextLocks]_vars

(***************************************************************************)
(* delete_recurring_transaction                                            *)
(* SpecDelete: delete and process calls of two connections on one rule,    *)
(* overlapping.  A delete call is two steps: the SELECT COUNT of the       *)
(* linked transactions, which takes no lock and sees what is committed;    *)
(* then the UPDATE or the DELETE of the rule's row, which waits for the    *)
(* row's lock, and the commit.                                             *)
(***************************************************************************)
\* SELECT COUNT FROM transactions WHERE recurring_id = :id
LinkedCount(txs, id) ==
    Cardinality({i \in 1..Len(txs) : txs[i].recurring_id = id})

\* DELETE /{id} arrives on connection c and the linked rows are counted
CallDelete(c, id) ==
    /\ sessions[c].pc = "idle"
    /\ sessions' = [sessions EXCEPT ![c] =
          [IdleSession EXCEPT !.pc = "deleting", !.op = "delete", !.queue = <<id>>,
                              !.rt = [linked_count |-> LinkedCount(transactions, id)]]]
    /\ UNCHANGED <<accounts, transactions, recurring_transactions, savings_goals,
                   today, response, episode, calc>>

\* DELETE FROM recurring_transactions WHERE id = :id
WithoutRule(table, id) == [i \in DOMAIN table \ {id} |-> table[i]]

\* "if linked_count > 0: UPDATE ... SET is_active = false ... else: DELETE
\* FROM recurring_transactions ...", 404 if no row is returned, commit
DeleteFinish(c) ==
    /\ sessions[c].pc = "deleting"
    /\ RuleLockFree(sessions[c].queue[1], c)
    /\ IF sessions[c].queue[1] \notin DOMAIN recurring_transactions
       THEN /\ UNCHANGED recurring_transactions
            /\ response' = Reply("delete", sessions[c].queue[1], 404, 0, "")
       ELSE IF sessions[c].rt.linked_count > 0
       THEN /\ recurring_transactions' =
                  [recurring_transactions EXCEPT
                     ![sessions[c].queue[1]].is_active = FALSE]
            /\ response' = Reply("delete", sessions[c].queue[1], 200, 0,
                                 "deactivated")
       ELSE /\ recurring_transactions' =
                  WithoutRule(recurring_transactions, sessions[c].queue[1])
            /\ response' = Reply("delete", sessions[c].queue[1], 200, 0, "deleted")
    /\ sessions' = [sessions EXCEPT ![c] = IdleSession]
    /\ episode' = NoEpisode
    /\ UNCHANGED <<accounts, transactions, savings_goals, today, calc>>

\* delete_recurring_transaction as one call with no other call in between
DeleteRecurring(id) ==
    /\ IF id \notin DOMAIN recurring_transactions
       THEN /\ UNCHANGED recurring_transactions
            /\ response' = Reply("delete", id, 404, 0, "")
       ELSE IF LinkedCount(transactions, id) > 0
       THEN /\ recurring_transactions' =
                  [recurring_transactions EXCEPT ![id].is_active = FALSE]
            /\ response' = Reply("delete", id, 200, 0, "deactivated")
       ELSE /\ recurring_transactions' = WithoutRule(recurring_transactions, id)
            /\ response' = Reply("delete", id, 200, 0, "deleted")
    /\ episode' = NoEpisode
    /\ UNCHANGED <<accounts, transactions, savings_goals, today>>

InitDelete ==
    /\ accounts = TwoAccounts
    /\ transactions = <<>>
    /\ recurring_transactions \in {(1 :> rule) : rule \in ConcRules}
    /\ savings_goals = <<>>
    /\ today = ClockDates[2]
    /\ response = NoResponse
    /\ episode = NoEpisode
    /\ sessions = [c \in Connections |-> IdleSession]
    /\ calc = NoCalc


NextDelete ==
    \/ \E c \in Connections, id \in RuleIds : CallProcess(c, id)
    \/ \E c \in Connections : LockRule(c)
    \/ \E c \in Connections : FinishRule(c)
    \/ \E c \in Connections, id \in RuleIds : CallDelete(c, id)
    \/ \E c \in Connections : DeleteFinish(c)

SpecDelete == InitDelete /\ [][NextDelete]_vars

(***************************************************************************)
(* delete_account                                                          *)
(* SpecAccounts: process calls on a rule whose accounts may be deleted.    *)
(***************************************************************************)
\* SELECT COUNT ... FROM transactions WHERE account_from_id = :id OR
\* account_to_id = :id
AccountRows(txs, account_id) ==
    Cardinality({i \in 1..Len(txs) :
                    \/ txs[i].account_from_id = account_id
                    \/ txs[i].account_to_id = account_id})

\* DELETE FROM accounts WHERE id = :id
WithoutAccount(accts, account_id) ==
    [a \in DOMAIN accts \ {account_id} |-> accts[a]]

\* delete_account: 404 for an unknown account, 400 for a balance that is
\* not zero; an account with transactions is deactivated, any other is
\* deleted (the rules naming it are not looked at)
DeleteAccount(account_id) ==
    /\ IF account_id \notin DOMAIN accounts
       THEN /\ UNCHANGED accounts
            /\ response' = Reply("delete_account", account_id, 404, 0, "")
       ELSE IF accounts[account_id].current_balance # 0
       THEN /\ UNCHANGED accounts
            /\ response' = Reply("delete_account", account_id, 400, 0, "")
       ELSE IF AccountRows(transactions, account_id) > 0
       THEN /\ accounts' = [accounts EXCEPT ![account_id].is_active = FALSE]
            /\ response' = Reply("delete_account", account_id, 200, 0, "deactivated")
       ELSE /\ accounts' = WithoutAccount(accounts, account_id)
            /\ response' = Reply("delete_account", account_id, 200, 0, "deleted")
    /\ episode' = NoEpisode
    /\ UNCHANGED <<transactions, recurring_transactions, savings_goals, today>>

AccountRules ==
    { LedgerRule,
      RuleRow(RuleInput("monthly", 20240131, NULL, "income", NULL, 2)),
      RuleRow(RuleInput("quarterly", 20231130, NULL, "transfer", 2, 1)) }

InitAccounts ==
    /\ accounts = TwoAccounts
    /\ transactions = <<>>
    /\ recurring_transactions \in {(1 :> rule) : rule \in AccountRules}
    /\ savings_goals = <<>>
    /\ today = ClockDates[1]
    /\ response = NoResponse
    /\ episode = NoEpisode
    /\ sessions = NoSessions
    /\ calc = NoCalc

NextAccounts ==
    \/ \E a \in AccountIds : DeleteAccount(a) /\ Serial
    \/ \E id \in RuleIds : Process(id) /\ Serial
    \/ Tick /\ Serial

SpecAccounts == InitAccounts /\ [][NextAccounts]_vars

(***************************************************************************)
(* SpecAdjust: balance adjustments on accounts that exist, that were       *)
(* deleted, and that hold rows made by a rule.                             *)
(***************************************************************************)
NextAdjust ==
    \/ \E a \in AccountIds : AdjustBalance(a) /\ Serial
    \/ \E a \in AccountIds : DeleteAccount(a) /\ Serial
    \/ \E id \in TransactionIds : DeleteTransaction(id) /\ Serial
    \/ \E id \in RuleIds : Process(id) /\ Serial
    \/ Tick /\ Serial

SpecAdjust == InitAccounts /\ [][NextAdjust]_vars

(***************************************************************************)
(* SpecCal: the recurrence step as a function, on every date of three      *)
(* years (2024 is a leap year) and every frequency.                        *)
(***************************************************************************)
CalDates == {d \in 20230101..20251231 : IsValidDate(d)}

InitCal ==
    /\ accounts = TwoAccounts
    /\ transactions = <<>>
    /\ recurring_transactions = <<>>
    /\ savings_goals = <<>>
    /\ today = ClockDates[1]
    /\ response = NoResponse
    /\ episode = NoEpisode
    /\ sessions = NoSessions
    /\ calc \in [date : CalDates, frequency : Frequencies, out : {NULL}]

\* one pass of the if/elif chain: next_date = next_date + period
Advance ==
    /\ calc.out = NULL
    /\ calc' = [calc EXCEPT !.out = NextDate(calc.frequency, calc.date)]
    /\ UNCHANGED <<accounts, transactions, recurring_transactions, savings_goals,
                   today, response, episode, sessions>>

NextCal == Advance

SpecCal == InitCal /\ [][NextCal]_vars

(***************************************************************************)
(* preview_recurring_transactions                                          *)
(***************************************************************************)
\* months_ahead: Query(3, ge=1, le=12)
MonthsAhead == {1, 3, 12}

\* while len(preview_dates) < 50
PreviewCap == 50

\* The while loop's variables: current_date, preview_dates, and running
\* (FALSE after the break).
PreviewStart(start_date) ==
    [current_date |-> start_date, preview_dates |-> <<>>, running |-> TRUE]

\* mutant: a month is counted as thirty days
PreviewAdvanceThirtyDays(frequency, current_date) ==
    IF frequency = "monthly" THEN AddDays(current_date, 30)
    ELSE IF frequency \in Frequencies THEN NextDate(frequency, current_date)
    ELSE current_date

\* the if/elif chain on rt.frequency of preview_recurring_transactions: it
\* has no else branch, so any other frequency leaves current_date as it is
PreviewAdvance(frequency, current_date) ==
    IF frequency \in Frequencies THEN NextDate(frequency, current_date)
    ELSE current_date

\* one pass through the body of the while loop
PreviewBody(rt, w) ==
    IF PastEndDate(rt, PreviewAdvance(rt.frequency, w.current_date))
    THEN [w EXCEPT !.current_date = PreviewAdvance(rt.frequency, @),
                   !.running = FALSE]
    ELSE [w EXCEPT !.current_date = PreviewAdvance(rt.frequency, @),
                   !.preview_dates =
                       Append(@, PreviewAdvance(rt.frequency, w.current_date))]

\* while len(preview_dates) < 50 and current_date <= end_preview: ...
RECURSIVE PreviewLoop(_, _, _)
PreviewLoop(rt, end_preview, w) ==
    IF w.running /\ Len(w.preview_dates) < PreviewCap /\ w.current_date <= end_preview
    THEN PreviewLoop(rt, end_preview, PreviewBody(rt, w))
    ELSE w

\* mutant: the preview stores the last date it lists as the checkpoint
PreviewCallStoring(db, id, months_ahead, current_date) ==
    IF id \notin DOMAIN db.recurring_transactions
    THEN [db |-> db, reply |-> Reply("preview", id, 404, 0, "")]
    ELSE [db |-> SetCheckpoint(db, id,
                     PreviewLoop(db.recurring_transactions[id],
                                 AddRelativeDelta(current_date, 0, months_ahead),
                                 PreviewStart(LastDate(db.recurring_transactions[id])))
                         .current_date),
          reply |-> Reply("preview", id, 200, 0, "")]

\* preview_dates.append({"date": ..., "amount": float(rt.amount), ...}) for
\* each date of the loop; amounts are whole numbers here, which float keeps
PreviewEntries(rt, dates) ==
    [k \in 1..Len(dates) |-> [date |-> dates[k], amount |-> rt.amount]]

\* One call on the tables db: the tables it leaves (it executes one SELECT
\* and no other statement) and what it returns, the date and amount of the
\* entries of "preview_dates" in results.
PreviewCall(db, id, months_ahead, current_date) ==
    IF id \notin DOMAIN db.recurring_transactions
    THEN [db |-> db, reply |-> Reply("preview", id, 404, 0, "")]
    ELSE [db |-> db,
          reply |-> [Reply("preview", id, 200, 0, "") EXCEPT !.results =
                     PreviewEntries(db.recurring_transactions[id],
                       PreviewLoop(db.recurring_transactions[id],
                                   AddRelativeDelta(current_date, 0, months_ahead),
                                   PreviewStart(LastDate(db.recurring_transactions[id])))
                           .preview_dates)]]

PreviewDone(r) ==
    /\ Install(r.db)
    /\ response' = r.reply
    /\ episode' = NoEpisode

Preview(id) ==
    \E months_ahead \in MonthsAhead :
        /\ PreviewDone(PreviewCall(Tables, id, months_ahead, today))
        /\ UNCHANGED today

(***************************************************************************)
(* SpecPreview: previews and process calls on one stored rule.  The rows   *)
(* of the table are those the API stores and one whose frequency is none   *)
(* of the five, as another client of the database can write it: the        *)
(* handlers read the column as free text and process has a branch for it.  *)
(***************************************************************************)
PreviewRules ==
    { RuleRow(RuleInput("daily", 20240115, 20240815, "expense", 1, NULL)),
      RuleRow(RuleInput("monthly", 20240115, 20240301, "expense", 1, NULL)),
      RuleRow(RuleInput("monthly", 20240131, NULL, "income", NULL, 2)),
      RuleRow(RuleInput("biweekly", 20240115, NULL, "expense", 1, NULL)) }

InitPreview ==
    /\ accounts = TwoAccounts
    /\ transactions = <<>>
    /\ recurring_transactions \in {(1 :> rule) : rule \in PreviewRules}
    /\ savings_goals = <<>>
    /\ today = ClockDates[1]
    /\ response = NoResponse
    /\ episode = NoEpisode
    /\ sessions = NoSessions
    /\ calc = NoCalc

NextPreview ==
    \/ \E id \in RuleIds : Preview(id) /\ Serial
    \/ \E id \in RuleIds : Process(id) /\ Serial
    \/ \E id \in RuleIds : Toggle(id) /\ Serial
    \/ Tick /\ Serial

SpecPreview == InitPreview /\ [][NextPreview]_vars

(***************************************************************************)
(* SpecBatch: process-all and process calls on two stored rules.           *)
(***************************************************************************)
BatchRules ==
    (1 :> LedgerRule)
    @@ (2 :> RuleRow(RuleInput("weekly", 20240115, 20240301, "income", NULL, 2)))

InitBatch ==
    /\ accounts = TwoAccounts
    /\ transactions = <<>>
    /\ recurring_transactions = BatchRules
    /\ savings_goals = <<>>
    /\ today = ClockDates[1]
    /\ response = NoResponse
    /\ episode = NoEpisode
    /\ sessions = NoSessions
    /\ calc = NoCalc

NextBatch ==
    \/ ProcessAll /\ Serial
    \/ \E id \in RuleIds : Process(id) /\ Serial
    \/ \E id \in RuleIds : Toggle(id) /\ Serial
    \/ Tick /\ Serial

SpecBatch == InitBatch /\ [][NextBatch]_vars

(***************************************************************************)
(* SpecLifecycle: every operation on the rules table, one call at a time,  *)
(* on two stored rules.                                                    *)
(***************************************************************************)
NextLifecycle ==
    \/ ProcessAll /\ Serial
    \/ \E id \in RuleIds : Process(id) /\ Serial
    \/ \E id \in RuleIds : Toggle(id) /\ Serial
    \/ \E id \in RuleIds : UpdateRecurring(id) /\ Serial
    \/ \E id \in RuleIds : DeleteRecurring(id) /\ Serial
    \/ Tick /\ Serial

SpecLifecycle == InitBatch /\ [][NextLifecycle]_vars

(***************************************************************************)
(* Properties                                                              *)
(***************************************************************************)
\* the sum of sign(row) * row.amount over the rows i..Len(txs) of txs, where
\* sign is -1 for a row naming account a as source and +1 as destination
RECURSIVE SignedSum(_, _, _)
SignedSum(txs, a, i) ==
    IF i > Len(txs) THEN 0
    ELSE (IF txs[i].account_to_id = a THEN txs[i].amount ELSE 0)
         - (IF txs[i].account_from_id = a THEN txs[i].amount ELSE 0)
         + SignedSum(txs, a, i + 1)

\* C1: every account's current_balance is its initial_balance minus the
\* amounts of the stored transactions naming it as account_from plus the
\* amounts of those naming it as account_to.
C1_BalanceInvariant ==
    \A a \in DOMAIN accounts :
        accounts[a].current_balance =
            accounts[a].initial_balance + SignedSum(transactions, a, 1)

TablesUnchanged ==
    UNCHANGED <<accounts, transactions, recurring_transactions, savings_goals>>

\* the rows a step appended to the transactions table
Appended == SubSeq(transactions', Len(transactions) + 1, Len(transactions'))

OnlyAppends ==
    /\ Len(transactions') >= Len(transactions)
    /\ SubSeq(transactions', 1, Len(transactions)) = transactions

\* A process call that follows a successful process call on the same rule
\* which reported fewer than `limit` created, the date being the same,
\* creates nothing and changes no table.
SecondCallIsNoOp(limit) ==
    ( /\ response.op = "process"
      /\ response.status = 200
      /\ response.created < limit
      /\ response'.op = "process"
      /\ response'.id = response.id
      /\ today' = today )
    => (response'.created = 0 /\ TablesUnchanged)

\* C2 as stated: whatever the first call did, the second call on the same
\* rule and date creates no transaction, changes no balance and leaves
\* last_created_date unchanged.
C2_IdempotentAlways == [][SecondCallIsNoOp(SafetyCap + 1)]_vars

\* C2 amended: if the first call succeeded and was not cut by the cap (it
\* reported fewer than 100 created), the second call on the same rule and
\* date creates no transaction, changes no balance and leaves
\* last_created_date unchanged.
C2_IdempotentWhenCaughtUp == [][SecondCallIsNoOp(SafetyCap)]_vars

\* a second call has followed a first call that created some, but fewer
\* than the cap, and it created nothing
C2_Witness ==
    /\ Len(episode.counts) = 2
    /\ episode.counts[1] > 0
    /\ episode.counts[1] < SafetyCap
    /\ episode.counts[2] = 0

\* What a process call may do to the tables: when it fails (any status but
\* 200) nothing; when it reports n created, n rows appended, the balance
\* effect of n rows applied and (n > 0) the checkpoint moved to the date of
\* the last row, and nothing else.
AtomicStep ==
    response'.op = "process" =>
        IF response'.status # 200 THEN TablesUnchanged
        ELSE /\ OnlyAppends
             /\ Len(Appended) = response'.created
             /\ \A i \in 1..Len(Appended) : Appended[i].recurring_id = response'.id
             /\ accounts' =
                    ApplyEffect(accounts,
                                recurring_transactions[response'.id].account_from_id,
                                recurring_transactions[response'.id].account_to_id,
                                recurring_transactions[response'.id].amount,
                                response'.created)
             /\ IF response'.created > 0
                THEN recurring_transactions' =
                        [recurring_transactions EXCEPT
                            ![response'.id].last_created_date =
                                Appended[Len(Appended)].date]
                ELSE UNCHANGED recurring_transactions
             /\ UNCHANGED savings_goals

\* C3: a process call persists all of its rows, balance updates and the
\* checkpoint advance, or, when any step fails, none of them.
C3_Atomicity == [][AtomicStep]_vars

\* a call on a rule with due occurrences has failed at a statement
C3_Witness ==
    /\ response.op = "process"
    /\ response.status = 500
    /\ response.detail = "StorageError"
    /\ transactions = <<>>

(***************************************************************************)
(* The run of successive process calls recorded in episode, against the    *)
(* occurrences that were due when it began.                                *)
(***************************************************************************)
\* The loop of the call with its cap taken away, for rule rt from the
\* date `from` at the date t.  It is evaluated in stretches of n passes
\* so that the evaluation stays shallow however long the backlog is.
RECURSIVE Stretch(_, _, _, _)
Stretch(rt, t, w, n) ==
    IF w.running /\ n > 0
    THEN Stretch(rt, t, LoopBody(rt, t, NoFault, w), n - 1)
    ELSE w

RECURSIVE UncappedLoop(_, _, _)
UncappedLoop(rt, t, w) ==
    IF w.running THEN UncappedLoop(rt, t, Stretch(rt, t, w, SafetyCap)) ELSE w

\* the dates a call with no cap materializes
DueDates(rt, from, t) == UncappedLoop(rt, t, LoopStart(from)).inserted

EpisodeRule == recurring_transactions[episode.id]
EpisodeDue == DueDates(EpisodeRule, episode.last_date, today)
EpisodeRows == SubSeq(transactions, episode.base + 1, Len(transactions))
EpisodeCalls == Len(episode.counts)
EpisodeSettled == episode.counts[EpisodeCalls] < SafetyCap

RowsAre(rows, rid, dates) ==
    /\ Len(rows) = Len(dates)
    /\ \A i \in 1..Len(rows) :
          rows[i].recurring_id = rid /\ rows[i].date = dates[i]

ResumesTo(due) ==
    \* every call continued where the one before stopped
    /\ Len(EpisodeRows) <= Len(due)
    /\ RowsAre(EpisodeRows, episode.id, SubSeq(due, 1, Len(EpisodeRows)))
    \* the number of calls is bounded by the backlog
    /\ EpisodeCalls <= (Len(due) \div SafetyCap) + 2
    \* a call cut by the cap was followed by calls, a call that was not cut
    \* only by a call that created nothing
    /\ \A i \in 1..(EpisodeCalls - 1) :
          \/ episode.counts[i] = SafetyCap
          \/ (i = EpisodeCalls - 1 /\ episode.counts[EpisodeCalls] = 0)
    \* a call that created fewer than the cap has reached the end state of
    \* the call without a cap
    /\ EpisodeSettled =>
          /\ Len(EpisodeRows) = Len(due)
          /\ accounts = ApplyEffect(episode.accounts, EpisodeRule.account_from_id,
                                    EpisodeRule.account_to_id, EpisodeRule.amount,
                                    Len(due))
          /\ LastDate(EpisodeRule) =
                IF Len(due) = 0 THEN episode.last_date ELSE due[Len(due)]

\* C5: repeated process calls at one date resume from the stored checkpoint
\* and, after a number of calls bounded by the backlog, reach a state in
\* which rows, balances and checkpoint are those of a single call without
\* a cap.
C5_Resumable == episode.id # NULL => ResumesTo(EpisodeDue)

\* a backlog of more than two caps has been worked off in three calls
C5_Witness ==
    /\ EpisodeCalls = 3
    /\ episode.counts[1] = SafetyCap
    /\ episode.counts[2] = SafetyCap
    /\ episode.counts[3] > 0
    /\ episode.counts[3] < SafetyCap

CappedAt(due, K) ==
    \* the first call created K rows, for the K earliest occurrences
    /\ episode.counts[1] = K
    /\ Len(EpisodeRows) >= K
    /\ RowsAre(SubSeq(EpisodeRows, 1, K), episode.id, SubSeq(due, 1, K))
    \* and left the checkpoint at the K-th
    /\ EpisodeCalls = 1 =>
          /\ Len(EpisodeRows) = K
          /\ EpisodeRule.last_created_date = due[K]
    \* the next call went on with the (K+1)-th
    /\ EpisodeCalls >= 2 =>
          /\ episode.counts[2] = Min(K, Len(due) - K)
          /\ EpisodeRows[K + 1].date = due[K + 1]

\* C6: with more than 100 occurrences pending, one process call creates
\* exactly 100 transactions, for the 100 earliest, and sets the checkpoint
\* to the date of the 100th; the next call starts with the 101st.
C6_SafetyCap ==
    (episode.id # NULL /\ Len(EpisodeDue) > SafetyCap) => CappedAt(EpisodeDue, SafetyCap)

\* 101 occurrences were pending: the first call made 100, the second one
C6_Witness ==
    /\ EpisodeCalls = 2
    /\ episode.counts = <<SafetyCap, 1>>
    /\ Len(EpisodeDue) = SafetyCap + 1

(***************************************************************************)
(* Order of the rows and of the checkpoint                                 *)
(***************************************************************************)
OrderedStep ==
    /\ \A i, j \in 1..Len(Appended) :
          (i < j /\ Appended[i].recurring_id # NULL
                 /\ Appended[i].recurring_id = Appended[j].recurring_id)
          => Appended[i].date < Appended[j].date
    /\ \A id \in DOMAIN recurring_transactions :
          /\ id \in DOMAIN recurring_transactions'
          /\ recurring_transactions'[id].last_created_date
                >= recurring_transactions[id].last_created_date

\* C7: one call creates the rows of a rule in strictly increasing date
\* order, and no process, process-all, update or toggle call lowers a
\* rule's stored last_created_date.
C7_Ordering == [][OrderedStep]_vars

\* a rule that has a checkpoint and several rows has been updated or toggled
C7_Witness ==
    /\ response.op \in {"update_recurring", "toggle"}
    /\ response.status = 200
    /\ recurring_transactions[response.id].last_created_date # NULL
    /\ Len(transactions) >= 2

(***************************************************************************)
(* Expansion of a rule from its checkpoint                                 *)
(***************************************************************************)
\* dt + relativedelta(months=n), for any n >= 0
AddMonths(dt, n) ==
    LET total == Year(dt) * 12 + (Month(dt) - 1) + n
        y == total \div 12
        m == (total % 12) + 1
    IN  MkDate(y, m, Min(DaysInMonth(y, m), Day(dt)))

\* date.toordinal(): the number of the day, 0001-01-01 being day 1
DaysBeforeYear(y) ==
    365 * (y - 1) + ((y - 1) \div 4) - ((y - 1) \div 100) + ((y - 1) \div 400)

DaysBeforeMonth(y, m) ==
    <<0, 31, 59, 90, 120, 151, 181, 212, 243, 273, 304, 334>>[m]
    + (IF m > 2 /\ IsLeap(y) THEN 1 ELSE 0)

ToOrdinal(dt) ==
    DaysBeforeYear(Year(dt)) + DaysBeforeMonth(Year(dt), Month(dt)) + Day(dt)

\* date.fromordinal(n), for the days of the years around dt
FromOrdinal(dt, n) ==
    LET y == CHOOSE y \in (Year(dt) - 1)..(Year(dt) + 3) :
                 DaysBeforeYear(y) < n /\ n <= DaysBeforeYear(y + 1)
        m == CHOOSE m \in 1..12 :
                 /\ DaysBeforeYear(y) + DaysBeforeMonth(y, m) < n
                 /\ n <= DaysBeforeYear(y) + DaysBeforeMonth(y, m) + DaysInMonth(y, m)
    IN  MkDate(y, m, n - DaysBeforeYear(y) - DaysBeforeMonth(y, m))

\* dt + timedelta(days=n) in one step
PlusDays(dt, n) == FromOrdinal(dt, ToOrdinal(dt) + n)

\* c + k periods of frequency f
AddPeriods(f, c, k) ==
    CASE f = "daily" -> PlusDays(c, k)
      [] f = "weekly" -> PlusDays(c, 7 * k)
      [] f = "monthly" -> AddMonths(c, k)
      [] f = "quarterly" -> AddMonths(c, 3 * k)
      [] f = "yearly" -> AddMonths(c, 12 * k)

PastBound(rt, d, t) == d > t \/ (rt.end_date # NULL /\ d > rt.end_date)

\* C8 as stated: the dates one call below the cap materializes from the
\* checkpoint c are c + 1 period, c + 2 periods, ..., in order, and the
\* call stops before the first of them that is after the current date or
\* after the end date.
C8_ExpansionFromCheckpoint ==
    (episode.id # NULL /\ EpisodeCalls = 1 /\ EpisodeSettled) =>
        /\ \A k \in 1..Len(EpisodeRows) :
              /\ EpisodeRows[k].date =
                    AddPeriods(EpisodeRule.frequency, episode.last_date, k)
              /\ EpisodeRows[k].date > episode.last_date
        /\ PastBound(EpisodeRule,
                     AddPeriods(EpisodeRule.frequency, episode.last_date,
                                Len(EpisodeRows) + 1),
                     today)

(***************************************************************************)
(* End date                                                                *)
(***************************************************************************)
EndDateStep ==
    response'.op \in {"process", "process_all"} =>
        /\ \A i \in 1..Len(Appended) :
              \/ recurring_transactions[Appended[i].recurring_id].end_date = NULL
              \/ Appended[i].date
                    <= recurring_transactions[Appended[i].recurring_id].end_date
        /\ \A id \in DOMAIN recurring_transactions :
              ( /\ recurring_transactions[id].end_date # NULL
                /\ NextDate(recurring_transactions[id].frequency,
                            LastDate(recurring_transactions[id]))
                     > recurring_transactions[id].end_date )
              => /\ \A i \in 1..Len(Appended) : Appended[i].recurring_id # id
                 /\ recurring_transactions'[id].last_created_date
                      = recurring_transactions[id].last_created_date

\* C9: no row a call creates for a rule is dated after the rule's end
\* date, and once the rule's next occurrence is after the end date a
\* process or process-all call creates no row for it and leaves its
\* checkpoint where it is.
C9_EndDate == [][EndDateStep]_vars

\* the monthly rule that ends on 2024-03-01 stands at 2024-02-15 and a call
\* made after 2024-03-15 went through the loop and created nothing
C9_Witness ==
    /\ response.op = "process"
    /\ response.status = 200
    /\ response.created = 0
    /\ response.detail = ""
    /\ today >= 20240315
    /\ recurring_transactions[response.id].frequency = "monthly"
    /\ recurring_transactions[response.id].end_date = 20240301
    /\ recurring_transactions[response.id].last_created_date = 20240215
    /\ Len(transactions) = 1

(***************************************************************************)
(* Exactly once                                                            *)
(***************************************************************************)
\* the occurrence dates of a rule of frequency f after the date `from`, up
\* to the date `to`
RECURSIVE OccurrencesUpTo(_, _, _)
OccurrencesUpTo(f, from, to) ==
    IF NextDate(f, from) > to THEN {}
    ELSE {NextDate(f, from)} \cup OccurrencesUpTo(f, NextDate(f, from), to)

RowsOf(rid, d) ==
    {i \in 1..Len(transactions) :
        transactions[i].recurring_id = rid /\ transactions[i].date = d}

\* C4: no two stored transactions have the same recurring_id and date, and
\* every occurrence date of a rule after its start_date and up to its
\* last_created_date has exactly one transaction.
C4_ExactlyOnce ==
    /\ \A i, j \in 1..Len(transactions) :
          ( /\ i # j
            /\ transactions[i].recurring_id # NULL
            /\ transactions[i].recurring_id = transactions[j].recurring_id )
          => transactions[i].date # transactions[j].date
    /\ \A rid \in DOMAIN recurring_transactions :
          recurring_transactions[rid].last_created_date # NULL =>
              \A d \in OccurrencesUpTo(recurring_transactions[rid].frequency,
                                       recurring_transactions[rid].start_date,
                                       recurring_transactions[rid].last_created_date) :
                  Cardinality(RowsOf(rid, d)) = 1

\* a call waits for the lock of rule 1, which the other connection's call
\* holds, and rule 1 has rows from an earlier call
C4_Witness ==
    /\ sessions # NoSessions
    /\ \E c, o \in Connections :
          /\ sessions[c].pc = "waiting"
          /\ sessions[c].queue[1] = 1
          /\ LockedBy(sessions[o]) = 1
    /\ recurring_transactions[1].last_created_date # NULL
    /\ transactions # <<>>

(***************************************************************************)
(* Calendar clamping                                                       *)
(***************************************************************************)
MonthIndex(dt) == Year(dt) * 12 + Month(dt)

PeriodMonths(f) ==
    CASE f = "monthly" -> 1 [] f = "quarterly" -> 3 [] f = "yearly" -> 12

\* C10: advancing a monthly, quarterly or yearly rule from a day 29, 30 or
\* 31 raises no error and gives a valid date exactly 1, 3 or 12 calendar
\* months on, on the same day of the month or, where the month has no such
\* day, on its last day.
C10_Clamping ==
    ( /\ calc.out # NULL
      /\ calc.frequency \in {"monthly", "quarterly", "yearly"}
      /\ Day(calc.date) >= 29 )
    => /\ calc.out # ValueError
       /\ IsValidDate(calc.out)
       /\ MonthIndex(calc.out) = MonthIndex(calc.date) + PeriodMonths(calc.frequency)
       /\ Day(calc.out) =
             Min(Day(calc.date), DaysInMonth(Year(calc.out), Month(calc.out)))

\* 2024-01-31 advanced by a month is 2024-02-29
C10_Witness ==
    calc = [date |-> 20240131, frequency |-> "monthly", out |-> 20240229]

(***************************************************************************)
(* Day of the month of a monthly rule                                      *)
(***************************************************************************)
\* the positions in the ledger of the rows generated from rule rid
RuleRowsAt(rid) ==
    {i \in 1..Len(transactions) : transactions[i].recurring_id = rid}

\* the k-th row generated from rule rid
KthRow(rid, k) ==
    transactions[CHOOSE i \in RuleRowsAt(rid) :
                     Cardinality({j \in RuleRowsAt(rid) : j <= i}) = k]

\* C11 as stated: the k-th occurrence materialized from a monthly rule is
\* on day min(d, days of the month) of the k-th month after its start
\* date, d being the day of the month of the start date.
C11_DayOfMonthPreserved ==
    \A rid \in DOMAIN recurring_transactions :
        recurring_transactions[rid].frequency = "monthly" =>
            \A k \in 1..Cardinality(RuleRowsAt(rid)) :
                KthRow(rid, k).date =
                    AddMonths(recurring_transactions[rid].start_date, k)

(***************************************************************************)
(* Process on an inactive rule                                             *)
(***************************************************************************)
\* a call of process_recurring_transaction on rule id returned in this step
ProcessReturned(id) ==
    /\ response'.op = "process"
    /\ response'.id = id
    /\ today' = today
    /\ \/ response' # response
       \/ Tables' # Tables
       \/ episode' # episode

\* rule id has occurrences due on the current date
HasBacklog(id) ==
    /\ LastDate(recurring_transactions[id]) < today
    /\ ~PastCurrentDate(NextDate(recurring_transactions[id].frequency,
                                 LastDate(recurring_transactions[id])), today)

InactiveStep ==
    \A id \in DOMAIN recurring_transactions :
        (~recurring_transactions[id].is_active /\ ProcessReturned(id)) =>
            /\ response'.status # 200
            /\ response'.created = 0
            /\ TablesUnchanged

\* C12: process_recurring_transaction on a rule with is_active = false
\* fails and inserts no transaction, changes no balance and leaves
\* last_created_date as it was, whatever backlog the rule has.
C12_InactiveRule == [][InactiveStep]_vars

\* a process call on an inactive rule with occurrences due has failed and
\* the ledger is still empty
C12_Witness ==
    /\ response.op = "process"
    /\ response.status # 200
    /\ response.id \in DOMAIN recurring_transactions
    /\ ~recurring_transactions[response.id].is_active
    /\ HasBacklog(response.id)
    /\ recurring_transactions[response.id].last_created_date = NULL
    /\ transactions = <<>>

(***************************************************************************)
(* The outcome reported for a missing or inactive rule                     *)
(***************************************************************************)
NotFoundStep ==
    \A id \in RuleIds :
        (~RuleSelected(Tables, id) /\ ProcessReturned(id)) =>
            response'.status = 404

\* C13 as stated: process_recurring_transaction on an id that no rule has,
\* or whose rule is inactive, reports HTTP 404 to its caller, which is not
\* what it reports for a storage or internal failure (HTTP 500).
C13_NotFoundOutcome == [][NotFoundStep]_vars

(***************************************************************************)
(* A rule whose frequency is none of the five                              *)
(***************************************************************************)
\* a call of preview_recurring_transactions on rule id returned in this step
PreviewReturned(id) ==
    /\ response'.op = "preview"
    /\ response'.id = id
    /\ today' = today
    /\ \/ response' # response
       \/ Tables' # Tables
       \/ episode' # episode

\* the call that returns in this step expands rule id: a preview, or a
\* process call that got past "if last_date >= current_date"
Expands(id) ==
    \/ PreviewReturned(id)
    \/ /\ ProcessReturned(id)
       /\ RuleSelected(Tables, id)
       /\ LastDate(recurring_transactions[id]) < today

UnknownFrequencyStep ==
    \A id \in DOMAIN recurring_transactions :
        (recurring_transactions[id].frequency \notin Frequencies /\ Expands(id)) =>
            /\ response'.status # 200
            /\ response'.created = 0
            /\ response'.results = <<>>
            /\ TablesUnchanged

PreviewStep ==
    \A id \in RuleIds : PreviewReturned(id) => TablesUnchanged

\* C16: preview_recurring_transactions, for any rule and any months_ahead,
\* inserts no transaction, changes no account balance and leaves the
\* rule's last_created_date and is_active as they were.
C16_PreviewIsPure == [][PreviewStep]_vars

\* a preview of a rule that has a checkpoint and rows in the ledger listed
\* dates after the checkpoint, and the checkpoint is still there
C16_Witness ==
    /\ response.op = "preview"
    /\ response.status = 200
    /\ response.id \in DOMAIN recurring_transactions
    /\ recurring_transactions[response.id].last_created_date # NULL
    /\ transactions # <<>>
    /\ response.results # <<>>
    /\ response.results[1].date
          > recurring_transactions[response.id].last_created_date

(***************************************************************************)
(* Batch independence                                                      *)
(***************************************************************************)
\* a call of process_all_recurring_transactions returned in this step
ProcessAllReturned ==
    /\ response'.op = "process_all"
    /\ today' = today
    /\ \/ response' # response
       \/ Tables' # Tables

\* the entries of "details" about rule id, and those that report an error
ResultsOf(reply, id) ==
    {k \in 1..Len(reply.results) : reply.results[k].id = id}

ErrorsOf(reply, id) ==
    {k \in ResultsOf(reply, id) : reply.results[k].error # ""}

\* the rows of a sequence of transactions generated from rule id, in order
RECURSIVE RowsFrom(_, _)
RowsFrom(rows, id) ==
    IF rows = <<>> THEN <<>>
    ELSE IF rows[1].recurring_id = id THEN <<rows[1]>> \o RowsFrom(Tail(rows), id)
    ELSE RowsFrom(Tail(rows), id)

\* the dates of rule id due in the state before the step
DueOf(id) ==
    DueDates(recurring_transactions[id], LastDate(recurring_transactions[id]), today)

\* the balances after the due rows of the rules of ids that did not fail
RECURSIVE BalancesAfter(_, _)
BalancesAfter(accts, ids) ==
    IF ids = {} THEN accts
    ELSE LET id == CHOOSE i \in ids : TRUE
         IN  BalancesAfter(
                 IF ErrorsOf(response', id) = {}
                 THEN ApplyEffect(accts, recurring_transactions[id].account_from_id,
                                  recurring_transactions[id].account_to_id,
                                  recurring_transactions[id].amount, Len(DueOf(id)))
                 ELSE accts,
                 ids \ {id})

BatchStep ==
    ProcessAllReturned =>
        /\ OnlyAppends
        /\ \A id \in DOMAIN recurring_transactions :
              IF ~recurring_transactions[id].is_active
              THEN \* not selected: not processed and not reported
                   /\ RowsFrom(Appended, id) = <<>>
                   /\ recurring_transactions'[id] = recurring_transactions[id]
                   /\ ResultsOf(response', id) = {}
              ELSE IF ErrorsOf(response', id) # {}
              THEN \* failed: reported once, nothing of it in the ledger
                   /\ Cardinality(ResultsOf(response', id)) = 1
                   /\ RowsFrom(Appended, id) = <<>>
                   /\ recurring_transactions'[id] = recurring_transactions[id]
              ELSE \* processed whatever happened to the other rules: every
                   \* due date has its row and the checkpoint is on the last
                   /\ RowsAre(RowsFrom(Appended, id), id, DueOf(id))
                   /\ recurring_transactions'[id] =
                         IF DueOf(id) = <<>> THEN recurring_transactions[id]
                         ELSE [recurring_transactions[id] EXCEPT
                                 !.last_created_date = DueOf(id)[Len(DueOf(id))]]
                   /\ \A k \in ResultsOf(response', id) :
                         response'.results[k].created = Len(DueOf(id))
        /\ accounts' = BalancesAfter(accounts, ActiveIds(Tables))
        /\ Len(Appended) =
              Len(RowsFrom(Appended, 1)) + Len(RowsFrom(Appended, 2))

\* C15: in process_all_recurring_transactions, when processing one active
\* rule fails, every other active rule is still processed, what the rules
\* that succeeded wrote stays committed, the failing rule contributes
\* nothing to the ledger, and the failure is reported for that rule only.
C15_BatchIndependence == [][BatchStep]_vars

\* a process-all call reported an error for one rule and created rows for
\* the other, and the ledger holds rows of the other rule only
C15_Witness ==
    /\ response.op = "process_all"
    /\ \E failed, other \in DOMAIN recurring_transactions :
          /\ failed # other
          /\ ErrorsOf(response, failed) # {}
          /\ ErrorsOf(response, other) = {}
          /\ \E k \in ResultsOf(response, other) : response.results[k].created > 0
          /\ RowsFrom(transactions, other) # <<>>
          /\ RowsFrom(transactions, failed) = <<>>
          /\ recurring_transactions[other].last_created_date # NULL
          /\ recurring_transactions[failed].last_created_date = NULL

(***************************************************************************)
(* Two overlapping process calls on one rule                               *)
(***************************************************************************)
\* no two calls are past the SELECT ... FOR UPDATE of the same rule
OneHolder ==
    \A c, o \in Connections :
        (c # o /\ LockedBy(sessions[c]) # NULL) =>
            LockedBy(sessions[c]) # LockedBy(sessions[o])

\* connection c's call was waiting for the lock of the rule when a call on
\* that rule committed, no call of the run has reported `limit` created or
\* more and the date is the same; in this step c's call returns
WaitingCallReturns(c, limit) ==
    /\ c \in episode.waiting
    /\ \A i \in 1..Len(episode.counts) : episode.counts[i] < limit
    /\ sessions[c].pc \in {"waiting", "working"}
    /\ sessions[c].queue[1] = episode.id
    /\ sessions'[c].pc = "idle"

OverlapStep(limit) ==
    /\ OneHolder
    /\ \A c \in Connections :
          WaitingCallReturns(c, limit) =>
              /\ response'.status = 200
              /\ response'.created = 0
              /\ TablesUnchanged

C18_NoLostUpdate ==
    /\ \A a \in DOMAIN accounts :
          accounts[a].current_balance =
              accounts[a].initial_balance + SignedSum(transactions, a, 1)
    /\ \A c, o \in Connections :
          c # o => sessions[c].holds \cap sessions[o].holds = {}

\* process calls on the two rules are in progress, one has written an
\* account the other is about to write and has to wait for, and the ledger
\* holds a committed row
C18_Witness ==
    /\ sessions # NoSessions
    /\ \E c, o \in Connections :
          /\ sessions[c].op = "process" /\ sessions[c].pc = "working"
          /\ sessions[o].op = "process" /\ sessions[o].pc = "working"
          /\ sessions[c].queue[1] # sessions[o].queue[1]
          /\ sessions[c].holds # {}
          /\ Pending(sessions[o]) # <<>>
          /\ Pending(sessions[o])[1] \in sessions[c].holds
    /\ transactions # <<>>

(***************************************************************************)
(* Well-formed transactions                                                *)
(***************************************************************************)
WellFormed(row) ==
    /\ row.amount > 0
    /\ row.type = "expense" => row.account_from_id # NULL
    /\ row.type = "income" => row.account_to_id # NULL
    /\ row.type = "transfer" =>
          (row.account_from_id # NULL /\ row.account_to_id # NULL)

\* C19 as stated: every stored transaction has amount > 0, a source account
\* if it is an expense, a destination account if it is an income, and both
\* if it is a transfer.
C19_WellFormedLedger ==
    \A i \in 1..Len(transactions) : WellFormed(transactions[i])

(***************************************************************************)
(* Generated transactions and their rule                                   *)
(***************************************************************************)
\* C20 as stated: after any sequence and any interleaving of delete and
\* process calls, every stored transaction with a recurring_id refers to a
\* rule that still exists.
C20_ReferentialIntegrity ==
    \A i \in 1..Len(transactions) :
        transactions[i].recurring_id # NULL =>
            transactions[i].recurring_id \in DOMAIN recurring_transactions

(***************************************************************************)
(* Balance conservation of a process call                                  *)
(***************************************************************************)
\* a process call on rule id returned successfully in this step
ProcessSucceeded(id) ==
    /\ ProcessReturned(id)
    /\ response'.status = 200
    /\ id \in DOMAIN recurring_transactions

\* n * a taken from the rule's source account, n * a given to its
\* destination account
ConservedChange(rt, a, n) ==
    (IF rt.account_to_id = a THEN n * rt.amount ELSE 0)
    - (IF rt.account_from_id = a THEN n * rt.amount ELSE 0)

ConservationStep ==
    \A id \in RuleIds :
        ProcessSucceeded(id) =>
            /\ Len(Appended) = response'.created
            /\ \A i \in 1..Len(Appended) :
                  Appended[i].amount = recurring_transactions[id].amount
            /\ DOMAIN accounts' = DOMAIN accounts
            /\ \A a \in DOMAIN accounts :
                  accounts'[a] =
                      [accounts[a] EXCEPT !.current_balance =
                          @ + ConservedChange(recurring_transactions[id], a,
                                              response'.created)]

\* C21: a successful process call that creates n transactions of amount a
\* lowers the balance of the rule's source account (if set) by exactly
\* n * a, raises that of its destination account (if set) by exactly n * a
\* and changes the balance of no other account.
C21_BalanceConservation == [][ConservationStep]_vars

\* a call on a rule with one account only has created several transactions
\* and the other account's balance is what it was at the start
C21_Witness ==
    /\ response.op = "process"
    /\ response.status = 200
    /\ response.created >= 2
    /\ response.id \in DOMAIN recurring_transactions
    /\ recurring_transactions[response.id].account_from_id = 1
    /\ recurring_transactions[response.id].account_to_id = NULL
    /\ accounts[1].current_balance =
          accounts[1].initial_balance - 5 * Len(transactions)
    /\ accounts[2].current_balance = accounts[2].initial_balance

(***************************************************************************)
(* A rule that names a missing account                                     *)
(***************************************************************************)
\* the accounts rule rt names
NamedAccounts(rt) == {rt.account_from_id, rt.account_to_id} \ {NULL}

PartialStep ==
    \A id \in DOMAIN recurring_transactions :
        ProcessReturned(id) =>
            \* a persisted row comes with its balance effects and checkpoint
            /\ Appended # <<>> =>
                  /\ \A a \in NamedAccounts(recurring_transactions[id]) :
                        /\ a \in DOMAIN accounts
                        /\ accounts'[a].current_balance =
                              accounts[a].current_balance
                              + ConservedChange(recurring_transactions[id], a,
                                                Len(Appended))
                  /\ recurring_transactions'[id].last_created_date =
                        Appended[Len(Appended)].date
            \* a call with occurrences due on a rule naming an account that
            \* does not exist fails and persists nothing
            /\ ( /\ RuleSelected(Tables, id)
                 /\ HasBacklog(id)
                 /\ ~(NamedAccounts(recurring_transactions[id]) \subseteq DOMAIN accounts) )
               => (response'.status # 200 /\ TablesUnchanged)

\* C22 as stated: whenever a transaction generated by a process call is
\* persisted, the balance effect on every account it names and the
\* checkpoint advance covering its date are persisted too; if the rule
\* names a source or destination account that does not exist, the call
\* fails and persists nothing.
C22_NoPartialMaterialization == [][PartialStep]_vars

(***************************************************************************)
(* delete_transaction is the inverse of the creation                       *)
(***************************************************************************)
\* what a stored row adds to the balance of account a
RowEffect(row, a) ==
    (IF row.account_to_id = a THEN row.amount ELSE 0)
    - (IF row.account_from_id = a THEN row.amount ELSE 0)

\* the balances moved by k times the effect of row, and nothing else of
\* the accounts changed
BalancesMoved(row, k) ==
    /\ DOMAIN accounts' = DOMAIN accounts
    /\ \A a \in DOMAIN accounts :
          accounts'[a] =
              [accounts[a] EXCEPT !.current_balance = @ + k * RowEffect(row, a)]

InverseStep ==
    \* create_transaction stores the row and applies its effect once
    /\ (response'.op = "create_transaction" /\ response'.status = 200
        /\ Len(transactions') = Len(transactions) + 1)
       => /\ OnlyAppends
          /\ BalancesMoved(Appended[1], 1)
    \* delete_transaction removes the row and takes the effect of the
    \* stored row back, whether a caller or a rule created it
    /\ \A id \in TransactionIds :
          ( /\ response'.op = "delete_transaction"
            /\ response'.id = id
            /\ response'.status = 200
            /\ Len(transactions') = Len(transactions) - 1 )
          => /\ HasTransaction(transactions, id)
             /\ transactions' = WithoutTransaction(transactions, id)
             /\ BalancesMoved(TransactionAt(transactions, id), -1)

\* C23: create_transaction followed by delete_transaction of the row
\* restores the balances of its source and destination accounts, also when
\* they are the same account, and deleting a row generated from a rule
\* takes back exactly the effect its materialization applied: creation
\* adds the row's effect, deletion subtracts the effect of the same row.
C23_ExactInverse == [][InverseStep]_vars

\* the first row generated from the transfer rule has been deleted, and
\* the balances are those of the rows that are left
C23_Witness ==
    /\ response.op = "delete_transaction"
    /\ response.status = 200
    /\ transactions # <<>>
    /\ \A i \in 1..Len(transactions) :
          transactions[i].recurring_id = 1 /\ transactions[i].id # 1
    /\ accounts[1].current_balance = 100 - 5 * Len(transactions)
    /\ accounts[2].current_balance = 5 * Len(transactions)

(***************************************************************************)
(* update_transaction and the balances                                     *)
(***************************************************************************)
UpdateStep ==
    \A id \in TransactionIds :
        ( /\ response'.op = "update_transaction"
          /\ response'.id = id
          /\ today' = today )
        => /\ accounts' = accounts
           /\ transactions' = transactions
           /\ HasTransaction(transactions, id) <=> response'.detail # "404"
           /\ response'.status = 200 <=> response'.detail = ""

\* C24: update_transaction leaves every account balance unchanged: the
\* revert and the reapplication of the row's effect cancel on success, and
\* when the call fails (unknown id, empty update) the balances reverted
\* before the failure are rolled back.  The row's amount, type, date and
\* accounts are not changed either.
C24_UpdateKeepsBalances == [][UpdateStep]_vars

\* an empty update of a stored transfer has failed after the revert, and
\* the balances still carry the transfer
C24_Witness ==
    /\ response.op = "update_transaction"
    /\ response.status = 500
    /\ response.detail = "400"
    /\ HasTransaction(transactions, response.id)
    /\ TransactionAt(transactions, response.id).account_from_id = 1
    /\ TransactionAt(transactions, response.id).account_to_id = 2
    /\ Len(transactions) = 1
    /\ accounts[1].current_balance = 95
    /\ accounts[2].current_balance = 5

\* the fields of a rule that say what it is and whether it runs
Lifecycle(rt) ==
    <<rt.is_active, rt.amount, rt.frequency, rt.start_date, rt.end_date,
      rt.type, rt.account_from_id, rt.account_to_id>>

\* a process or process-all call keeps each stored rule and its lifecycle
\* fields and creates nothing for an inactive rule; a rule goes from active
\* to inactive only by toggle, update or a delete that found linked rows
LifecycleStep ==
    \A id \in DOMAIN recurring_transactions :
        /\ (response'.op \in {"process", "process_all"} /\ today' = today)
           => /\ id \in DOMAIN recurring_transactions'
              /\ Lifecycle(recurring_transactions'[id])
                    = Lifecycle(recurring_transactions[id])
              /\ ~recurring_transactions[id].is_active
                    => /\ recurring_transactions'[id] = recurring_transactions[id]
                       /\ RowsFrom(Appended, id) = <<>>
        /\ (/\ recurring_transactions[id].is_active
            /\ id \in DOMAIN recurring_transactions'
            /\ ~recurring_transactions'[id].is_active)
           => \/ response'.op \in {"toggle", "update_recurring"}
              \/ response'.op = "delete" /\ LinkedCount(transactions, id) > 0

\* C25: materialization never deletes a rule nor changes its is_active,
\* amount, frequency, start_date or end_date; a rule becomes inactive only
\* by toggle, update or delete-with-linked-transactions, and while it is
\* inactive no process or process-all call creates a transaction for it
C25_LifecycleFrame == [][LifecycleStep]_vars

\* a process-all call has just returned while rule 1, with a backlog, was
\* inactive after a delete that found linked rows, and rule 2 got its rows
C25_Witness ==
    /\ response.op = "process_all"
    /\ 1 \in DOMAIN recurring_transactions
    /\ ~recurring_transactions[1].is_active
    /\ recurring_transactions[1].last_created_date = 20240415
    /\ today = 20250301
    /\ LinkedCount(transactions, 1) = 3
    /\ LinkedCount(transactions, 2) > 0
    /\ 2 \in DOMAIN recurring_transactions
    /\ recurring_transactions[2].is_active

\* nothing of rule rt is due on current_date: the checkpoint is on or after
\* it, or the occurrence after the checkpoint is after it or after end_date
NothingDue(rt, current_date) ==
    \/ LastDate(rt) >= current_date
    \/ /\ rt.frequency \in Frequencies
       /\ \/ PastCurrentDate(NextDate(rt.frequency, LastDate(rt)), current_date)
          \/ /\ rt.end_date # NULL
             /\ NextDate(rt.frequency, LastDate(rt)) > rt.end_date

\* a process call on a selected rule with nothing due reports created = 0
\* without error and leaves the three tables as they are
NothingDueStep ==
    \A id \in RuleIds :
        (/\ ProcessReturned(id)
         /\ RuleSelected(Tables, id)
         /\ NothingDue(recurring_transactions[id], today))
        => /\ response'.status = 200
           /\ response'.created = 0
           /\ transactions' = transactions
           /\ accounts' = accounts
           /\ recurring_transactions' = recurring_transactions

\* C26: when the effective checkpoint is on or after the current date, or
\* the next occurrence lies after the current date or the end date,
\* process_recurring_transaction returns created = 0 without error and
\* without changing transactions, any balance or last_created_date
C26_NothingDueNoOp == [][NothingDueStep]_vars

\* a call has just returned 0 from the loop's break on the end date, with a
\* checkpoint before the current date and earlier rows of the rule stored
C26_Witness ==
    /\ response.op = "process"
    /\ response.status = 200
    /\ response.created = 0
    /\ response.detail = ""
    /\ response.id \in DOMAIN recurring_transactions
    /\ recurring_transactions[response.id].is_active
    /\ recurring_transactions[response.id].last_created_date # NULL
    /\ recurring_transactions[response.id].last_created_date < today
    /\ recurring_transactions[response.id].end_date # NULL
    /\ NextDate(recurring_transactions[response.id].frequency,
                recurring_transactions[response.id].last_created_date) <= today
    /\ LinkedCount(transactions, response.id) > 0

\* every stored row of a stored rule is dated after the rule's start_date
AfterStartDate(txs, rules) ==
    \A i \in 1..Len(txs) :
        txs[i].recurring_id \in DOMAIN rules
        => txs[i].date > rules[txs[i].recurring_id].start_date

\* the places in transactions' of the rows this step appended for rule id
AppendedFor(id) ==
    {i \in (Len(transactions) + 1)..Len(transactions') :
        transactions'[i].recurring_id = id}

\* after every step the rows of each rule are dated after its start_date,
\* and the first row a process or process-all call creates for a rule with
\* a null checkpoint is dated start_date plus one period
StartDateStep ==
    /\ AfterStartDate(transactions', recurring_transactions')
    /\ \A id \in DOMAIN recurring_transactions :
          (/\ response'.op \in {"process", "process_all"}
           /\ today' = today
           /\ recurring_transactions[id].last_created_date = NULL
           /\ AppendedFor(id) # {})
          => /\ LinkedCount(transactions, id) = 0
             /\ \E i \in AppendedFor(id) :
                   /\ \A j \in AppendedFor(id) : i <= j
                   /\ transactions'[i].date
                         = NextDate(recurring_transactions[id].frequency,
                                    recurring_transactions[id].start_date)

\* C27: every transaction generated for a rule has a date strictly greater
\* than the rule's start_date, the first one being start_date plus one
\* period
C27_StartDateNotMaterialized == [][StartDateStep]_vars

\* a rule that started on the last day of January has its first row on the
\* last day of February and its checkpoint past it
C27_Witness ==
    /\ 1 \in DOMAIN recurring_transactions
    /\ recurring_transactions[1].start_date = 20240131
    /\ recurring_transactions[1].last_created_date > 20240229
    /\ Len(transactions) >= 2
    /\ transactions[1].recurring_id = 1
    /\ transactions[1].date = 20240229

\* the rows of txs after the first n
RowsAfter(txs, n) == SubSeq(txs, n + 1, Len(txs))

\* the rows a process call on rule id would insert from this state, in order
WouldCreate(id) ==
    RowsAfter(ProcessCall(Tables, id, today, NoFault).db.transactions,
              Len(transactions))

\* the preview entries dated on or before current_date, in order
PreviewDue(entries, current_date) ==
    SelectSeq(entries, LAMBDA entry : entry.date <= current_date)

\* the entries due are the dates of the first rows, and all of them unless
\* the entries stopped at the preview's cap
AgreesUpToCap(due, rows) ==
    /\ Len(due) <= Len(rows)
    /\ \A k \in 1..Len(due) : due[k].date = rows[k].date
    /\ Len(due) < PreviewCap => Len(due) = Len(rows)

\* the preview of an active rule with a known frequency lists, up to the
\* current date, the dates process would create from the same state, in the
\* same order: all of them unless it stopped at its 50 entries, and then
\* the first 50; each entry has the rule's amount
PreviewAgreesStep ==
    \A id \in DOMAIN recurring_transactions :
        (/\ PreviewReturned(id)
         /\ response'.status = 200
         /\ recurring_transactions[id].is_active
         /\ recurring_transactions[id].frequency \in Frequencies)
        => /\ AgreesUpToCap(PreviewDue(response'.results, today), WouldCreate(id))
           /\ \A k \in 1..Len(response'.results) :
                 response'.results[k].amount = recurring_transactions[id].amount

\* C28: for an active rule with a known frequency the preview dates on or
\* before the current date are, in order, the dates process would create
\* from that state, up to the caps of 50 preview entries and 100 created
\* transactions, and every preview entry carries the rule's amount
C28_PreviewAgrees == [][PreviewAgreesStep]_vars

\* a preview of an active monthly rule with a checkpoint has just listed
\* two dates that are due and at least one that is not
C28_Witness ==
    /\ response.op = "preview"
    /\ response.status = 200
    /\ response.id \in DOMAIN recurring_transactions
    /\ recurring_transactions[response.id].is_active
    /\ recurring_transactions[response.id].frequency = "monthly"
    /\ recurring_transactions[response.id].last_created_date # NULL
    /\ Len(PreviewDue(response.results, today)) >= 2
    /\ Len(PreviewDue(response.results, today)) < Len(response.results)
    /\ WouldCreate(response.id)[2].date = response.results[2].date

\* the dates of entries are after checkpoint, not after end_date if set, not
\* after horizon, strictly increasing, and at most 50
WithinBounds(entries, checkpoint, end_date, horizon) ==
    /\ Len(entries) <= PreviewCap
    /\ \A k \in 1..Len(entries) :
          /\ entries[k].date > checkpoint
          /\ end_date # NULL => entries[k].date <= end_date
          /\ entries[k].date <= horizon
          /\ k > 1 => entries[k - 1].date < entries[k].date

\* a preview of a rule with a known frequency returns entries within the
\* bounds of the call, whichever months_ahead the reply comes from
PreviewBoundsStep ==
    \A id \in DOMAIN recurring_transactions, months_ahead \in MonthsAhead :
        (/\ PreviewReturned(id)
         /\ response'.status = 200
         /\ recurring_transactions[id].frequency \in Frequencies
         /\ response' = PreviewCall(Tables, id, months_ahead, today).reply)
        => WithinBounds(response'.results,
                        LastDate(recurring_transactions[id]),
                        recurring_transactions[id].end_date,
                        AddRelativeDelta(today, 0, months_ahead))

\* C29: every date returned by preview_recurring_transactions is strictly
\* after the rule's checkpoint, not after the rule's end_date (if set) and
\* not after the current date plus months_ahead months; the list is
\* strictly increasing and has at most 50 entries
C29_PreviewWithinBounds == [][PreviewBoundsStep]_vars

\* the row adjust_account_balance inserts for account a going from b to n
IsCorrection(row, a, b, n) ==
    /\ row.type = "correction"
    /\ row.amount > 0
    /\ row.amount = (IF n > b THEN n - b ELSE b - n)
    /\ row.account_to_id = (IF n > b THEN a ELSE NULL)
    /\ row.account_from_id = (IF n < b THEN a ELSE NULL)
    /\ row.recurring_id = NULL

\* what a call with new_balance n leaves for the existing account a
Adjusted(a, n) ==
    IF n = accounts[a].current_balance
    THEN accounts' = accounts /\ transactions' = transactions
    ELSE /\ accounts' = [accounts EXCEPT ![a].current_balance = n]
         /\ Len(transactions') = Len(transactions) + 1
         /\ SubSeq(transactions', 1, Len(transactions)) = transactions
         /\ IsCorrection(transactions'[Len(transactions')], a,
                         accounts[a].current_balance, n)

\* an adjust call on an unknown account reports 404 and changes no table; on
\* an existing account it succeeds and, for the balance n it was given,
\* either n is the old balance and nothing is changed, or the balance is n
\* and one correction row for the difference is appended
AdjustStep ==
    \A a \in AccountIds :
        (response'.op = "adjust_balance" /\ response'.id = a /\ today' = today)
        => /\ recurring_transactions' = recurring_transactions
           /\ IF a \notin DOMAIN accounts
              THEN /\ response'.status = 404
                   /\ accounts' = accounts
                   /\ transactions' = transactions
              ELSE /\ response'.status = 200
                   /\ \E n \in NewBalances : Adjusted(a, n)
                   /\ response'.created = 0
                         <=> accounts'[a].current_balance = accounts[a].current_balance

\* C30: adjust_account_balance on an existing account with balance b and
\* requested balance n changes nothing when n = b; otherwise the balance
\* becomes n and exactly one correction transaction of amount |n - b| is
\* inserted, naming the account as destination when n > b and as source
\* when n < b; for an unknown account it reports 404 and changes nothing
C30_AdjustBalance == [][AdjustStep]_vars

\* an adjust call has just lowered account 1 from 100 to 50 with one
\* correction row naming it as source
C30_Witness ==
    /\ response.op = "adjust_balance"
    /\ response.id = 1
    /\ response.status = 200
    /\ response.created = 1
    /\ accounts[1].current_balance = 50
    /\ Len(transactions) = 1
    /\ IsCorrection(transactions[1], 1, 100, 50)

====
